---- MODULE Spec2Model ----
(***************************************************************************)
(* State store of the calibration-bench simulator                          *)
(* (src/reference/dc-rfsimulator/src/context/SimulatorContext.jsx), the    *)
(* device registry it consults, and the Multimeter's circuit resolver.     *)
(*                                                                         *)
(* Numbers: resistances and programmed values are counted in steps of      *)
(* 0.05, the smallest quantity the code names (0.05 Ohm = 1, 5.0 Ohm =     *)
(* 100, 10 V = 200, 10 MOhm = 200000000), so that they stay integers of    *)
(* 32 bits. Arithmetic is exact: the rounding of doubles is not modelled.  *)
(***************************************************************************)
EXTENDS Integers, Sequences, FiniteSets, TLC

VARIABLES
    components,          \* state.components: sequence of device records
    connections,         \* state.connections: sequence of wire records
    componentIdCounter,  \* state.componentIdCounter
    connectionStartPoint, \* state.connectionStartPoint: the terminal a wire is started from
    alerts,              \* state.alerts: sequence of notifications
    alertIdCounter,      \* state.alertIdCounter
    uncertaintyMode,     \* state.uncertaintyMode
    errorSimulation,     \* state.errorSimulation: the three error-simulation switches
    instances,           \* the local state of each mounted measuring device, by key
    timers,              \* the pending timers of each key: how many
    alertItems,          \* the mounted AlertItems and the pending exit timers
    heldIds,             \* history: every id a component has held in this store's lifetime
    lastOp               \* history: the operation that produced this state

vars == <<components, connections, componentIdCounter, connectionStartPoint, alerts, alertIdCounter,
          uncertaintyMode, errorSimulation, instances, timers, alertItems, heldIds,
          lastOp>>

----------------------------------------------------------------------------
(* Bounds of the model *)

MaxComponents == 2
MaxConnections == 2
MaxAlerts == 1
\* Math.random() takes 2 * RandomScale equidistant values, 0 the first
RandomScale == 1

\* addComponent is modelled while the id counter is below MaxId, addAlert
\* while the alert counter is below MaxAlertId
MaxId == MaxComponents
MaxAlertId == MaxAlerts + 1

----------------------------------------------------------------------------
(* Values *)

NoId == -9
Null == [null |-> TRUE]

StandardResistance == 1
BadResistance == 100

\* the meter's input impedance, 10 MOhm
rMeter == 200000000

\* 1.0 Ohm, above which a current reading is degraded
BurdenThreshold == 20

\* the modes of the calibrator (FLUKE_MODES)
FLUKE_MODES == {"DC Voltage", "AC Voltage", "DC Current", "AC Current",
                "Resistance", "Capacitance", "Frequency", "Temperature"}

\* mode.includes('Voltage'), mode.includes('Current')
VoltageModes == {"DC Voltage", "AC Voltage"}
CurrentModes == {"DC Current", "AC Current"}

\* the units ENTER is pressed with in the model, none of them prefixed, and
\* the values typed: 10 and 1000
EnterUnits == {"V", "A", "Ohm", "F"}
EnterValues == {200, 20000}
\* the values the calibrator's knob is turned between in the model: 10 and 11
AdjustedValues == {200, 220}
\* source.state.frequency || 1000: no frequency is typed in the model
DefaultFrequency == 20000

\* complianceStatus: null in the store
NoStatus == "null"
COMPLIANCE_STATUSES == {"compliance", "non_compliance", "out_of_tolerance"}

\* the keys of state.errorSimulation
ErrorTypes == {"loadingError", "resolutionUncertainty", "instrumentError"}

\* canvas coordinates a device is dropped at or dragged to
Coordinates == {0, 1}

DeviceTypes == {"fluke5500a", "multimeter", "unknown"}
Polarities == {"hi", "lo", "aux_hi", "aux_lo"}
\* the terminals wired by hand in the model; auxiliary wires come from loaded projects
WiredPolarities == {"hi", "lo"}

\* ids a caller may name: every id the store can hold in the model, -1 from a
\* loaded document, and MaxId, which no component ever holds
IdInputs == -1 .. MaxId
\* JavaScript array indices a caller may name (0-based): those of the longest
\* list a loaded project brings, and some past the end
IndexInputs == 0 .. MaxConnections + 2

----------------------------------------------------------------------------
(* Device registry *)

\* DEVICES[type].role; a type the registry does not know has no role
DeviceRole(type) ==
    CASE type \in {"fluke5500a", "fluke5522a", "sma100a", "lightsource"} -> "calibrator"
      [] type = "multimeter" -> "uuc"
      [] type = "u3606a" -> "uuc"
      [] type = "analog_multimeter" -> "uuc"
      [] OTHER -> "none"

\* the keys of DEVICES in the model
DEVICES == {"fluke5500a", "fluke5522a", "sma100a", "lightsource",
            "multimeter", "u3606a", "analog_multimeter"}

getCalibratorTypes == {t \in DEVICES : DeviceRole(t) = "calibrator"}

getUUCTypes == {t \in DEVICES : DeviceRole(t) = "uuc"}

\* the fields of the catalog's initial state that the store and the resolver read
getInitialState(type) ==
    CASE type = "fluke5500a" ->
             [power |-> TRUE, output |-> FALSE, mode |-> "DC Voltage", value |-> 0]
      [] type = "fluke5522a" ->
             [power |-> TRUE, output |-> FALSE, mode |-> "DC Voltage", value |-> 20]
      [] type = "sma100a" -> [power |-> TRUE, rfOn |-> FALSE, modOn |-> FALSE]
      [] type = "lightsource" ->
             [power |-> TRUE, output |-> FALSE, wavelength |-> 1310]
      [] type = "multimeter" ->
             [power |-> TRUE, output |-> FALSE, mode |-> "DC V", value |-> 0]
      [] type \in {"u3606a", "analog_multimeter"} ->
             [power |-> TRUE, output |-> FALSE, mode |-> "DCV", value |-> 0]
      [] OTHER -> [power |-> FALSE, output |-> FALSE, mode |-> "", value |-> 0]

----------------------------------------------------------------------------
(* JavaScript array helpers *)

\* Array.prototype.find: the element at the first of the matching positions,
\* or Null when no position matches
Find(seq, matching) ==
    IF matching = {} THEN Null
    ELSE seq[CHOOSE i \in matching : \A j \in matching : i <= j]

\* Array.prototype.filter on the 0-based index
FilterIndex(seq, index) ==
    LET keep == {i \in 1 .. Len(seq) : i - 1 # index}
        RECURSIVE Build(_)
        Build(i) == IF i > Len(seq) THEN <<>>
                    ELSE IF i \in keep THEN <<seq[i]>> \o Build(i + 1)
                    ELSE Build(i + 1)
    IN Build(1)

RECURSIVE MathMax(_, _)
\* Math.max(...ids, start): the fold of max over the sequence, from start
MathMax(ids, start) ==
    IF ids = <<>> THEN start
    ELSE LET rest == MathMax(Tail(ids), start)
         IN IF Head(ids) > rest THEN Head(ids) ELSE rest

Ids(comps) == [i \in 1 .. Len(comps) |-> comps[i].id]

IdSet(comps) == {comps[i].id : i \in 1 .. Len(comps)}

----------------------------------------------------------------------------
(* Initial state *)

\* lastOp: the operation and, where one operation has several outcomes, which one
NoOp == [type |-> "INIT", outcome |-> ""]

Op(type, outcome) == [type |-> type, outcome |-> outcome]

\* initialState.errorSimulation
NoErrorSimulation == [t \in ErrorTypes |-> FALSE]

Init ==
    /\ components = <<>>
    /\ connections = <<>>
    /\ componentIdCounter = 0
    /\ connectionStartPoint = Null
    /\ alerts = <<>>
    /\ alertIdCounter = 0
    /\ uncertaintyMode = FALSE
    /\ errorSimulation = NoErrorSimulation
    /\ instances = [id \in {} |-> Null]
    /\ timers = [id \in IdInputs |-> 0]
    /\ alertItems = [items |-> [id \in {} |-> Null], exits |-> {}, created |-> 0]
    /\ heldIds = {}
    /\ lastOp = NoOp

----------------------------------------------------------------------------
(* Connection validator *)

\* state.components.find(c => c.id === id)
ComponentById(id) ==
    Find(components, {i \in DOMAIN components : components[i].id = id})

\* state.connections.find(c => c.from === fromId && c.to === toId && c.polarity === polarity)
ConnectionOf(fromId, toId, polarity) ==
    Find(connections,
         {i \in DOMAIN connections :
             /\ connections[i].from = fromId
             /\ connections[i].to = toId
             /\ connections[i].polarity = polarity})

\* connections.find(c => c.to === meterId && c.polarity === polarity)
ConnectionTo(meterId, polarity) ==
    Find(connections,
         {i \in DOMAIN connections :
             connections[i].to = meterId /\ connections[i].polarity = polarity})

\* The validator's messages, named by the rule they report:
\*   "DEVICE_NOT_FOUND"        line 276     "UNSUPPORTED_SOURCE_ROLE"  line 286
\*   "UNSUPPORTED_SINK_ROLE"   line 290     "DUPLICATE_POLARITY"       line 299
\*   "OK"                      line 302
Verdict(valid, message) == [valid |-> valid, message |-> message]

\* a slip: the sink's role is not checked
checkConnectionCompatibility_NoSinkCheck(fromId, toId, polarity) ==
    LET fromComp == ComponentById(fromId)
        toComp == ComponentById(toId)
        existingConnection == ConnectionOf(fromId, toId, polarity)
    IN IF fromComp = Null \/ toComp = Null THEN Verdict(FALSE, "DEVICE_NOT_FOUND")
       ELSE IF fromComp.type \notin getCalibratorTypes
       THEN Verdict(FALSE, "UNSUPPORTED_SOURCE_ROLE")
       ELSE IF existingConnection # Null THEN Verdict(FALSE, "DUPLICATE_POLARITY")
       ELSE Verdict(TRUE, "OK")

\* a slip: an existing wire is not looked for
checkConnectionCompatibility_NoDuplicateCheck(fromId, toId, polarity) ==
    LET fromComp == ComponentById(fromId)
        toComp == ComponentById(toId)
    IN IF fromComp = Null \/ toComp = Null THEN Verdict(FALSE, "DEVICE_NOT_FOUND")
       ELSE IF fromComp.type \notin getCalibratorTypes
       THEN Verdict(FALSE, "UNSUPPORTED_SOURCE_ROLE")
       ELSE IF toComp.type \notin getUUCTypes
       THEN Verdict(FALSE, "UNSUPPORTED_SINK_ROLE")
       ELSE Verdict(TRUE, "OK")

\* a slip: an existing wire between the pair counts whatever its polarity
checkConnectionCompatibility_AnyPolarity(fromId, toId, polarity) ==
    LET fromComp == ComponentById(fromId)
        toComp == ComponentById(toId)
        existingConnection ==
            Find(connections,
                 {i \in DOMAIN connections :
                     connections[i].from = fromId /\ connections[i].to = toId})
    IN IF fromComp = Null \/ toComp = Null THEN Verdict(FALSE, "DEVICE_NOT_FOUND")
       ELSE IF fromComp.type \notin getCalibratorTypes
       THEN Verdict(FALSE, "UNSUPPORTED_SOURCE_ROLE")
       ELSE IF toComp.type \notin getUUCTypes
       THEN Verdict(FALSE, "UNSUPPORTED_SINK_ROLE")
       ELSE IF existingConnection # Null THEN Verdict(FALSE, "DUPLICATE_POLARITY")
       ELSE Verdict(TRUE, "OK")

\* a slip: the sink's role is checked before the source's
checkConnectionCompatibility_SinkFirst(fromId, toId, polarity) ==
    LET fromComp == ComponentById(fromId)
        toComp == ComponentById(toId)
        existingConnection == ConnectionOf(fromId, toId, polarity)
    IN IF fromComp = Null \/ toComp = Null THEN Verdict(FALSE, "DEVICE_NOT_FOUND")
       ELSE IF toComp.type \notin getUUCTypes
       THEN Verdict(FALSE, "UNSUPPORTED_SINK_ROLE")
       ELSE IF fromComp.type \notin getCalibratorTypes
       THEN Verdict(FALSE, "UNSUPPORTED_SOURCE_ROLE")
       ELSE IF existingConnection # Null THEN Verdict(FALSE, "DUPLICATE_POLARITY")
       ELSE Verdict(TRUE, "OK")

\* checkConnectionCompatibility(fromId, toId, polarity) on the current state
checkConnectionCompatibility(fromId, toId, polarity) ==
    LET fromComp == ComponentById(fromId)
        toComp == ComponentById(toId)
        existingConnection == ConnectionOf(fromId, toId, polarity)
    IN IF fromComp = Null \/ toComp = Null THEN Verdict(FALSE, "DEVICE_NOT_FOUND")
       ELSE IF fromComp.type \notin getCalibratorTypes
       THEN Verdict(FALSE, "UNSUPPORTED_SOURCE_ROLE")
       ELSE IF toComp.type \notin getUUCTypes
       THEN Verdict(FALSE, "UNSUPPORTED_SINK_ROLE")
       ELSE IF existingConnection # Null THEN Verdict(FALSE, "DUPLICATE_POLARITY")
       ELSE Verdict(TRUE, "OK")

----------------------------------------------------------------------------
(* Reducer cases, as functions of the state they rewrite *)

\* { ...getInitialDeviceState(deviceType), complianceStatus }
WithComplianceStatus(state, complianceStatus) ==
    [f \in DOMAIN state \cup {"complianceStatus"} |->
        IF f = "complianceStatus" THEN complianceStatus ELSE state[f]]

\* ADD_COMPONENT: the component appended
NewComponent(newId, deviceType, x, y, complianceStatus) ==
    [id |-> newId, type |-> deviceType, x |-> x, y |-> y,
     state |-> WithComplianceStatus(getInitialState(deviceType), complianceStatus)]

\* a slip: the role of the new device is not looked at
NewComplianceStatuses_AnyRole(deviceType) ==
    IF uncertaintyMode THEN COMPLIANCE_STATUSES ELSE {NoStatus}

\* ADD_COMPONENT: the values Math.random() leaves open for complianceStatus
NewComplianceStatuses(deviceType) ==
    LET isUUC == deviceType \in getUUCTypes
    IN IF uncertaintyMode /\ isUUC THEN COMPLIANCE_STATUSES ELSE {NoStatus}

\* UPDATE_COMPONENT_POSITION: every component with that id moved to (x, y)
UpdatePositionMap(comps, id, x, y) ==
    [i \in 1 .. Len(comps) |->
        IF comps[i].id = id THEN [comps[i] EXCEPT !.x = x, !.y = y] ELSE comps[i]]

\* REMOVE_COMPONENT: components.filter(c => c.id !== id)
RemoveComponentFilter(comps, id) ==
    SelectSeq(comps, LAMBDA c : c.id # id)

\* a slip: only the wires leaving the removed component are dropped
RemoveConnectionsFilter_FromOnly(conns, id) ==
    SelectSeq(conns, LAMBDA conn : conn.from # id)

\* REMOVE_COMPONENT: connections.filter(conn => conn.from !== id && conn.to !== id)
RemoveConnectionsFilter(conns, id) ==
    SelectSeq(conns, LAMBDA conn : conn.from # id /\ conn.to # id)

\* UPDATE_DEVICE_STATE: merge newState (a record of some state fields) into
\* the state of every component with that id
UpdateDeviceStateMap(comps, id, newState) ==
    [i \in 1 .. Len(comps) |->
        IF comps[i].id = id
        THEN [comps[i] EXCEPT !.state =
                 [f \in DOMAIN comps[i].state |->
                     IF f \in DOMAIN newState THEN newState[f] ELSE comps[i].state[f]]]
        ELSE comps[i]]

\* ADD_CONNECTION: the wire appended; polarity || 'hi'
NewConnection(from, to, polarity) ==
    [from |-> from, to |-> to,
     polarity |-> IF polarity = "" THEN "hi" ELSE polarity,
     wireProperties |-> [type |-> "standard", resistance |-> StandardResistance]]

\* a slip: the toggled connection is built anew, as ADD_CONNECTION builds one
ToggleWireMap_Rebuilt(conns, index) ==
    [i \in 1 .. Len(conns) |->
        IF i - 1 # index THEN conns[i]
        ELSE LET isStandard == conns[i].wireProperties.type = "standard"
                 fresh == NewConnection(conns[i].from, conns[i].to, "")
             IN [fresh EXCEPT !.wireProperties =
                    [type |-> IF isStandard THEN "bad" ELSE "standard",
                     resistance |-> IF isStandard THEN BadResistance
                                    ELSE StandardResistance]]]

\* a slip: the kind is switched and the resistance is left as it was
ToggleWireMap_KindOnly(conns, index) ==
    [i \in 1 .. Len(conns) |->
        IF i - 1 # index THEN conns[i]
        ELSE LET isStandard == conns[i].wireProperties.type = "standard"
             IN [conns[i] EXCEPT !.wireProperties =
                    [type |-> IF isStandard THEN "bad" ELSE "standard",
                     resistance |-> conns[i].wireProperties.resistance]]]

\* TOGGLE_CONNECTION_WIRE_TYPE: the connection at index (0-based) rewritten
ToggleWireMap(conns, index) ==
    [i \in 1 .. Len(conns) |->
        IF i - 1 # index THEN conns[i]
        ELSE LET isStandard == conns[i].wireProperties.type = "standard"
             IN [conns[i] EXCEPT !.wireProperties =
                    [type |-> IF isStandard THEN "bad" ELSE "standard",
                     resistance |-> IF isStandard THEN BadResistance
                                    ELSE StandardResistance]]]

\* a slip: every device is given a status, whatever its role
AssignCompliance_EveryDevice(comps, newMode, drawn) ==
    [i \in 1 .. Len(comps) |->
        IF newMode
        THEN [comps[i] EXCEPT !.state =
                 WithComplianceStatus(comps[i].state, drawn[i])]
        ELSE comps[i]]

\* a slip: switching the mode off clears the statuses
AssignCompliance_ClearedWhenOff(comps, newMode, drawn) ==
    [i \in 1 .. Len(comps) |->
        LET isUUC == comps[i].type \in getUUCTypes
        IN IF isUUC
           THEN [comps[i] EXCEPT !.state =
                    WithComplianceStatus(comps[i].state,
                                         IF newMode THEN drawn[i] ELSE NoStatus)]
           ELSE comps[i]]

\* TOGGLE_UNCERTAINTY_MODE: components.map(...); drawn[i] is the status that
\* Math.random() picks for the i-th component
AssignCompliance(comps, newMode, drawn) ==
    [i \in 1 .. Len(comps) |->
        LET isUUC == comps[i].type \in getUUCTypes
        IN IF isUUC /\ newMode
           THEN [comps[i] EXCEPT !.state =
                    WithComplianceStatus(comps[i].state, drawn[i])]
           ELSE comps[i]]

\* TOGGLE_ERROR_SIMULATION: { ...errorSimulation, [errorType]: !errorSimulation[errorType] }
ToggleErrorType(simulation, errorType) ==
    [simulation EXCEPT ![errorType] = ~simulation[errorType]]

\* a slip: the id after the last loaded component, not after the largest
LoadIdCounter_AfterLast(comps) ==
    IF comps = <<>> THEN 1 ELSE comps[Len(comps)].id + 1

\* LOAD_PROJECT: Math.max(...components.map(c => c.id), 0) + 1
LoadIdCounter(comps) == MathMax(Ids(comps), 0) + 1

\* ADD_ALERT: the alert appended; its title and message are texts that are
\* shown and never read back, and are left out
NewAlert(alertId, type) ==
    [id |-> alertId, type |-> type]

----------------------------------------------------------------------------
(* Circuit resolver of the Multimeter *)

\* a reading: the number value * num / den, kept as the code composes it
Scaled(value, num, den) == [value |-> value, num |-> num, den |-> den]

Exactly(value) == Scaled(value, 1, 1)

\* wire?.wireProperties?.resistance || 0.05
ResistanceOf(wire) ==
    IF wire.wireProperties.resistance = 0 THEN StandardResistance
    ELSE wire.wireProperties.resistance

\* a slip: the lo wire is left out of the sum
wireResistance_HiOnly(hiWire, loWire) ==
    IF errorSimulation["loadingError"] THEN ResistanceOf(hiWire) ELSE 0

\* the total wire resistance of the pair found: 0 while loadingError is off
wireResistance(hiWire, loWire) ==
    IF errorSimulation["loadingError"]
    THEN ResistanceOf(hiWire) + ResistanceOf(loWire)
    ELSE 0

\* a slip: the divider is inverted
measuredValue_InvertedDivider(source, resistance) ==
    IF errorSimulation["loadingError"] /\ source.state.output
    THEN CASE source.state.mode \in VoltageModes ->
                  Scaled(source.state.value, rMeter + resistance, rMeter)
           [] source.state.mode = "Resistance" ->
                  Exactly(source.state.value + resistance)
           [] source.state.mode \in CurrentModes ->
                  IF resistance > BurdenThreshold
                  THEN Scaled(source.state.value, 9995, 10000)
                  ELSE Exactly(source.state.value)
           [] OTHER -> Exactly(source.state.value)
    ELSE Exactly(source.state.value)

\* a slip: the correction is applied whether or not loadingError is on
measuredValue_AlwaysLoaded(source, resistance) ==
    IF source.state.output
    THEN CASE source.state.mode \in VoltageModes ->
                  Scaled(source.state.value, rMeter, rMeter + 2 * StandardResistance)
           [] source.state.mode = "Resistance" ->
                  Exactly(source.state.value + 2 * StandardResistance)
           [] OTHER -> Exactly(source.state.value)
    ELSE Exactly(source.state.value)

\* the loading-error physics applied to the source's programmed value
measuredValue(source, resistance) ==
    IF errorSimulation["loadingError"] /\ source.state.output
    THEN CASE source.state.mode \in VoltageModes ->
                  Scaled(source.state.value, rMeter, rMeter + resistance)
           [] source.state.mode = "Resistance" ->
                  Exactly(source.state.value + resistance)
           [] source.state.mode \in CurrentModes ->
                  IF resistance > BurdenThreshold
                  THEN Scaled(source.state.value, 9995, 10000)
                  ELSE Exactly(source.state.value)
           [] OTHER -> Exactly(source.state.value)
    ELSE Exactly(source.state.value)

\* modeMapping[source.state.mode] || 'DC V'
mappedMode(mode) ==
    CASE mode = "DC Voltage" -> "DC V"
      [] mode = "AC Voltage" -> "AC V"
      [] mode = "DC Current" -> "DC A"
      [] mode = "AC Current" -> "AC A"
      [] mode = "Resistance" -> "Ohm"
      [] mode = "Capacitance" -> "F"
      [] mode = "Frequency" -> "Hz"
      [] mode = "Temperature" -> "degC"
      [] OTHER -> "DC V"

\* the object returned for a calibrator with its output on; sourceId and
\* isAuxConnection are the resolver's locals, kept for the properties
Measurement(sourceId, isAuxConnection, source, hiWire, loWire) ==
    [sourceId |-> sourceId, isAuxConnection |-> isAuxConnection, active |-> TRUE,
     value |-> measuredValue(source, wireResistance(hiWire, loWire)),
     mode |-> source.state.mode,
     mappedMode |-> mappedMode(source.state.mode),
     frequency |-> DefaultFrequency,
     wireResistance |-> wireResistance(hiWire, loWire)]

\* a slip: the two wires of a pair are not compared for their source
getConnectedValue_AnySource(meterId) ==
    LET hiConn == ConnectionTo(meterId, "hi")
        loConn == ConnectionTo(meterId, "lo")
        auxHiConn == ConnectionTo(meterId, "aux_hi")
        auxLoConn == ConnectionTo(meterId, "aux_lo")
        normal == hiConn # Null /\ loConn # Null
        aux == auxHiConn # Null /\ auxLoConn # Null
        sourceId == IF normal THEN hiConn.from
                    ELSE IF aux THEN auxHiConn.from ELSE NoId
        isAuxConnection == ~normal /\ aux
        source == ComponentById(sourceId)
    IN IF ~normal /\ ~aux THEN Null
       ELSE IF source = Null \/ ~source.state.power THEN Null
       ELSE IF source.type \in {"fluke5500a", "fluke5522a"} /\ source.state.output
       THEN Measurement(sourceId, isAuxConnection, source,
                        IF isAuxConnection THEN auxHiConn ELSE hiConn,
                        IF isAuxConnection THEN auxLoConn ELSE loConn)
       ELSE Null

\* Multimeter.getConnectedValue for the component with id meterId: Null when
\* nothing is measured, else the measurement and where it was found.  The
\* four wires and the source are consts of the function: each is looked up
\* once and bound
getConnectedValue(meterId) ==
    LET Resolved(hiConn, loConn, auxHiConn, auxLoConn) ==
            LET normal == hiConn # Null /\ loConn # Null /\ hiConn.from = loConn.from
                aux == auxHiConn # Null /\ auxLoConn # Null /\ auxHiConn.from = auxLoConn.from
                sourceId == IF normal THEN hiConn.from
                            ELSE IF aux THEN auxHiConn.from ELSE NoId
                isAuxConnection == ~normal /\ aux
                Sourced(source) ==
                    IF source = Null \/ ~source.state.power THEN Null
                    ELSE IF source.type \in {"fluke5500a", "fluke5522a"} /\ source.state.output
                    THEN Measurement(sourceId, isAuxConnection, source,
                                     IF isAuxConnection THEN auxHiConn ELSE hiConn,
                                     IF isAuxConnection THEN auxLoConn ELSE loConn)
                    ELSE Null
            IN IF ~normal /\ ~aux THEN Null
               ELSE CHOOSE result \in {Sourced(source) :
                                          source \in {ComponentById(sourceId)}} : TRUE
    IN CHOOSE result \in {Resolved(hiConn, loConn, auxHiConn, auxLoConn) :
                             hiConn \in {ConnectionTo(meterId, "hi")},
                             loConn \in {ConnectionTo(meterId, "lo")},
                             auxHiConn \in {ConnectionTo(meterId, "aux_hi")},
                             auxLoConn \in {ConnectionTo(meterId, "aux_lo")}} : TRUE

----------------------------------------------------------------------------
(* Project documents handed to loadProject *)

Wire(from, to, polarity) == NewConnection(from, to, polarity)

\* a saved component: dropped at the origin, no compliance status
Device(id, type, power, output) ==
    [id |-> id, type |-> type, x |-> 0, y |-> 0,
     state |-> WithComplianceStatus(
                   [getInitialState(type) EXCEPT !.power = power, !.output = output],
                   NoStatus)]

\* a saved calibrator that was programmed
Programmed(device, mode, value) ==
    [device EXCEPT !.state.mode = mode, !.state.value = value]

\* an empty project
EmptyDoc == [components |-> <<>>, connections |-> <<>>]

\* one meter, saved switched off
SingleDoc ==
    [components |-> <<Device(0, "multimeter", FALSE, FALSE)>>, connections |-> <<>>]

\* a calibrator with its output on, wired hi and lo to a multimeter
BenchDoc ==
    [components |-> <<Device(0, "fluke5500a", TRUE, TRUE), Device(1, "multimeter", TRUE, FALSE)>>,
     connections |-> <<Wire(0, 1, "hi"), Wire(0, 1, "lo")>>]

\* a hand-edited project: ids out of order, a wire from the meter, the same
\* wire twice
EditedDoc ==
    [components |-> <<Device(1, "multimeter", TRUE, FALSE), Device(0, "fluke5500a", TRUE, FALSE)>>,
     connections |-> <<Wire(1, 0, "hi"), Wire(0, 1, "lo"), Wire(0, 1, "lo")>>]

\* a hand-edited project: a negative id, and a wire from a device that is not there
NegativeDoc ==
    [components |-> <<Device(-1, "multimeter", TRUE, FALSE)>>,
     connections |-> <<Wire(0, -1, "hi")>>]

\* a calibrator wired to the auxiliary terminals of a multimeter
AuxDoc ==
    [components |-> <<Device(0, "fluke5500a", TRUE, TRUE), Device(1, "multimeter", TRUE, FALSE)>>,
     connections |-> <<Wire(0, 1, "aux_hi"), Wire(0, 1, "aux_lo")>>]

\* one calibrator feeding two multimeters
TwoMeterDoc ==
    [components |-> <<Device(0, "fluke5500a", TRUE, TRUE), Device(1, "multimeter", TRUE, FALSE),
                      Device(2, "multimeter", TRUE, FALSE)>>,
     connections |-> <<Wire(0, 1, "hi"), Wire(0, 2, "hi"), Wire(0, 1, "lo"), Wire(0, 2, "lo")>>]

\* two calibrators on one multimeter: the second calibrator's hi and lo wires
\* follow a hi wire of the first
ShadowedDoc ==
    [components |-> <<Device(0, "fluke5500a", TRUE, TRUE), Device(1, "fluke5500a", TRUE, TRUE),
                      Device(2, "multimeter", TRUE, FALSE)>>,
     connections |-> <<Wire(0, 2, "hi"), Wire(1, 2, "hi"), Wire(1, 2, "lo")>>]

\* two calibrators on one multimeter: one on the primary terminals, one on
\* the auxiliary terminals
TwoSourceDoc ==
    [components |-> <<Device(0, "fluke5500a", TRUE, TRUE), Device(1, "fluke5500a", TRUE, TRUE),
                      Device(2, "multimeter", TRUE, FALSE)>>,
     connections |-> <<Wire(0, 2, "hi"), Wire(0, 2, "lo"),
                       Wire(1, 2, "aux_hi"), Wire(1, 2, "aux_lo")>>]

\* a calibrator programmed to 10 V with its output on, wired hi and lo to a
\* multimeter
MeterBenchDoc ==
    [components |-> <<Programmed(Device(0, "fluke5500a", TRUE, TRUE), "DC Voltage", 200),
                      Device(1, "multimeter", TRUE, FALSE)>>,
     connections |-> <<Wire(0, 1, "hi"), Wire(0, 1, "lo")>>]

\* the same calibrator wired hi and lo to a U3606A
HookBenchDoc ==
    [components |-> <<Programmed(Device(0, "fluke5500a", TRUE, TRUE), "DC Voltage", 200),
                      Device(1, "u3606a", TRUE, FALSE)>>,
     connections |-> <<Wire(0, 1, "hi"), Wire(0, 1, "lo")>>]

\* the same calibrator wired hi and lo to an analog multimeter
NeedleBenchDoc ==
    [components |-> <<Programmed(Device(0, "fluke5500a", TRUE, TRUE), "DC Voltage", 200),
                      Device(1, "analog_multimeter", TRUE, FALSE)>>,
     connections |-> <<Wire(0, 1, "hi"), Wire(0, 1, "lo")>>]

\* a saved multimeter whose state map kept only the power field
StrippedDevice(id) ==
    [id |-> id, type |-> "multimeter", x |-> 0, y |-> 0, state |-> [power |-> TRUE]]

\* a saved multimeter without a state map
StatelessDevice(id) ==
    [id |-> id, type |-> "multimeter", x |-> 0, y |-> 0]

\* a hand-edited project: the meter's state lacks mode and value
StrippedDoc ==
    [components |-> <<Device(0, "fluke5500a", TRUE, TRUE), StrippedDevice(1)>>,
     connections |-> <<>>]

\* a hand-edited project: the meter has no state map
StatelessDoc ==
    [components |-> <<Device(0, "fluke5500a", TRUE, TRUE), StatelessDevice(1)>>,
     connections |-> <<>>]

\* a project file without a connections entry
UnwiredFile ==
    [components |-> <<Device(0, "fluke5500a", TRUE, TRUE), Device(1, "multimeter", TRUE, FALSE)>>]

\* the parsed files handed to the page's load handler
ProjectFiles == {EmptyDoc, BenchDoc, StrippedDoc, StatelessDoc, UnwiredFile}

\* the documents loaded where the store is studied
ProjectDocs == {EmptyDoc, SingleDoc, BenchDoc, EditedDoc, NegativeDoc}

\* the documents loaded where readings are studied
BenchDocs == {BenchDoc, AuxDoc, TwoMeterDoc, ShadowedDoc, TwoSourceDoc}

----------------------------------------------------------------------------
(* Store operations *)

\* a slip: the id taken from the length of the list, not from the counter
ADD_COMPONENT_IdFromLength(deviceType, x, y) ==
    /\ componentIdCounter < MaxId
    /\ Len(components) < MaxComponents
    /\ LET newId == Len(components)
       IN /\ \E complianceStatus \in NewComplianceStatuses(deviceType) :
                components' = Append(components,
                                     NewComponent(newId, deviceType, x, y, complianceStatus))
          /\ componentIdCounter' = componentIdCounter + 1
          /\ lastOp' = Op("ADD_COMPONENT", "")
    /\ UNCHANGED <<connectionStartPoint, connections, alerts, alertIdCounter, uncertaintyMode, errorSimulation>>

\* addComponent(type, x, y) -> ADD_COMPONENT
ADD_COMPONENT(deviceType, x, y) ==
    /\ componentIdCounter < MaxId
    /\ Len(components) < MaxComponents
    /\ LET newId == componentIdCounter
       IN /\ \E complianceStatus \in NewComplianceStatuses(deviceType) :
                components' = Append(components,
                                     NewComponent(newId, deviceType, x, y, complianceStatus))
          /\ componentIdCounter' = newId + 1
          /\ lastOp' = Op("ADD_COMPONENT", "")
    /\ UNCHANGED <<connectionStartPoint, connections, alerts, alertIdCounter, uncertaintyMode, errorSimulation>>

\* removeComponent(id) -> REMOVE_COMPONENT
REMOVE_COMPONENT(id) ==
    /\ components' = RemoveComponentFilter(components, id)
    /\ connections' = RemoveConnectionsFilter(connections, id)
    /\ lastOp' = Op("REMOVE_COMPONENT",
                     IF connections' # connections THEN "cascade"
                     ELSE IF components' # components THEN "removed" ELSE "none")
    /\ UNCHANGED <<connectionStartPoint, componentIdCounter, alerts, alertIdCounter, uncertaintyMode, errorSimulation>>

\* updateDeviceState(id, newState) -> UPDATE_DEVICE_STATE
UPDATE_DEVICE_STATE(id, newState) ==
    /\ components' = UpdateDeviceStateMap(components, id, newState)
    /\ lastOp' = Op("UPDATE_DEVICE_STATE", "")
    /\ UNCHANGED <<connectionStartPoint, connections, componentIdCounter, alerts, alertIdCounter, uncertaintyMode, errorSimulation>>

\* updateComponentPosition(id, x, y) -> UPDATE_COMPONENT_POSITION
UPDATE_COMPONENT_POSITION(id, x, y) ==
    /\ components' = UpdatePositionMap(components, id, x, y)
    /\ lastOp' = Op("UPDATE_COMPONENT_POSITION", "")
    /\ UNCHANGED <<connectionStartPoint, connections, componentIdCounter, alerts, alertIdCounter,
                   uncertaintyMode, errorSimulation>>

\* Fluke5500A.togglePower on the panel of the i-th component
Fluke5500A_togglePower(i) ==
    /\ i \in 1 .. Len(components)
    /\ components[i].type = "fluke5500a"
    /\ UPDATE_DEVICE_STATE(components[i].id,
                           [power |-> ~components[i].state.power, output |-> FALSE])

\* Fluke5500A.toggleOutput on the panel of the i-th component
Fluke5500A_toggleOutput(i) ==
    /\ i \in 1 .. Len(components)
    /\ components[i].type = "fluke5500a"
    /\ components[i].state.power
    /\ UPDATE_DEVICE_STATE(components[i].id, [output |-> ~components[i].state.output])

\* the mode ENTER derives from the unit typed on the first line, with nothing
\* typed on the second: the mode stays for a unit that names none
EnteredMode(mode, primaryUnit) ==
    CASE primaryUnit = "V" -> "DC Voltage"
      [] primaryUnit = "A" -> "DC Current"
      [] primaryUnit = "Ohm" -> "Resistance"
      [] primaryUnit = "F" -> "Capacitance"
      [] OTHER -> mode

\* Fluke5500A.handleEnter on the panel of the i-th component, with newValue
\* and primaryUnit typed: the value is programmed and the output goes to standby
Fluke5500A_handleEnter(i, newValue, primaryUnit) ==
    /\ i \in 1 .. Len(components)
    /\ components[i].type = "fluke5500a"
    /\ components[i].state.power
    /\ UPDATE_DEVICE_STATE(components[i].id,
                           [mode |-> EnteredMode(components[i].state.mode, primaryUnit),
                            value |-> newValue,
                            output |-> FALSE])

\* Fluke5500A.handleSetMode on the panel of the i-th component
Fluke5500A_handleSetMode(i, newMode) ==
    /\ i \in 1 .. Len(components)
    /\ components[i].type = "fluke5500a"
    /\ components[i].state.power
    /\ newMode \in FLUKE_MODES
    /\ UPDATE_DEVICE_STATE(components[i].id, [mode |-> newMode])

\* Fluke5500A.handleReset on the panel of the i-th component
Fluke5500A_handleReset(i) ==
    /\ i \in 1 .. Len(components)
    /\ components[i].type = "fluke5500a"
    /\ components[i].state.power
    /\ UPDATE_DEVICE_STATE(components[i].id, [value |-> 0, output |-> FALSE])

\* the STBY key of the Fluke 5500A: no guard on the power
Fluke5500A_standby(i) ==
    /\ i \in 1 .. Len(components)
    /\ components[i].type = "fluke5500a"
    /\ UPDATE_DEVICE_STATE(components[i].id, [output |-> FALSE])

\* Fluke5522A.togglePower on the panel of the i-th component
Fluke5522A_togglePower(i) ==
    /\ i \in 1 .. Len(components)
    /\ components[i].type = "fluke5522a"
    /\ UPDATE_DEVICE_STATE(components[i].id,
                           [power |-> ~components[i].state.power, output |-> FALSE])

\* Fluke5522A.toggleOutput on the panel of the i-th component
Fluke5522A_toggleOutput(i) ==
    /\ i \in 1 .. Len(components)
    /\ components[i].type = "fluke5522a"
    /\ components[i].state.power
    /\ UPDATE_DEVICE_STATE(components[i].id, [output |-> ~components[i].state.output])

\* Fluke5522A.handleEnter with newValue and primaryUnit typed: the output is
\* left as it is
Fluke5522A_handleEnter(i, newValue, primaryUnit) ==
    /\ i \in 1 .. Len(components)
    /\ components[i].type = "fluke5522a"
    /\ components[i].state.power
    /\ UPDATE_DEVICE_STATE(components[i].id,
                           [mode |-> EnteredMode(components[i].state.mode, primaryUnit),
                            value |-> newValue])

\* Fluke5522A.handleSetMode on the panel of the i-th component
Fluke5522A_handleSetMode(i, newMode) ==
    /\ i \in 1 .. Len(components)
    /\ components[i].type = "fluke5522a"
    /\ components[i].state.power
    /\ newMode \in FLUKE_MODES
    /\ UPDATE_DEVICE_STATE(components[i].id, [mode |-> newMode])

\* Fluke5522A.handleReset on the panel of the i-th component
Fluke5522A_handleReset(i) ==
    /\ i \in 1 .. Len(components)
    /\ components[i].type = "fluke5522a"
    /\ components[i].state.power
    /\ UPDATE_DEVICE_STATE(components[i].id, [value |-> 0, output |-> FALSE])

\* the STBY key of the Fluke 5522A
Fluke5522A_standby(i) ==
    /\ i \in 1 .. Len(components)
    /\ components[i].type = "fluke5522a"
    /\ UPDATE_DEVICE_STATE(components[i].id, [output |-> FALSE])

\* a slip: the RF stage is left as it is when the power goes
SMA100A_togglePower_KeepsRF(i) ==
    /\ i \in 1 .. Len(components)
    /\ components[i].type = "sma100a"
    /\ UPDATE_DEVICE_STATE(components[i].id, [power |-> ~components[i].state.power])

\* SMA100A.togglePower on the panel of the i-th component: the RF stage keeps
\* its setting when the power comes and is switched off when it goes
SMA100A_togglePower(i) ==
    /\ i \in 1 .. Len(components)
    /\ components[i].type = "sma100a"
    /\ LET newPower == ~components[i].state.power
       IN UPDATE_DEVICE_STATE(components[i].id,
                              [power |-> newPower,
                               rfOn |-> IF newPower THEN components[i].state.rfOn
                                        ELSE FALSE])

\* SMA100A.toggleRF on the panel of the i-th component
SMA100A_toggleRF(i) ==
    /\ i \in 1 .. Len(components)
    /\ components[i].type = "sma100a"
    /\ components[i].state.power
    /\ UPDATE_DEVICE_STATE(components[i].id, [rfOn |-> ~components[i].state.rfOn])

\* SMA100A.toggleMod on the panel of the i-th component
SMA100A_toggleMod(i) ==
    /\ i \in 1 .. Len(components)
    /\ components[i].type = "sma100a"
    /\ components[i].state.power
    /\ UPDATE_DEVICE_STATE(components[i].id, [modOn |-> ~components[i].state.modOn])

\* SMA100A.handlePreset, confirmed in the dialog: the defaults, with the power
\* on and the RF stage off
SMA100A_handlePreset(i) ==
    /\ i \in 1 .. Len(components)
    /\ components[i].type = "sma100a"
    /\ UPDATE_DEVICE_STATE(components[i].id,
                           [power |-> TRUE, rfOn |-> FALSE, modOn |-> FALSE])

\* LightSource.togglePower on the panel of the i-th component
LightSource_togglePower(i) ==
    /\ i \in 1 .. Len(components)
    /\ components[i].type = "lightsource"
    /\ UPDATE_DEVICE_STATE(components[i].id,
                           [power |-> ~components[i].state.power, output |-> FALSE])

\* LightSource.toggleOutput on the panel of the i-th component
LightSource_toggleOutput(i) ==
    /\ i \in 1 .. Len(components)
    /\ components[i].type = "lightsource"
    /\ components[i].state.power
    /\ UPDATE_DEVICE_STATE(components[i].id, [output |-> ~components[i].state.output])

\* LightSource.handleWavelengthChange: the laser goes off with the change
LightSource_handleWavelengthChange(i, wavelength) ==
    /\ i \in 1 .. Len(components)
    /\ components[i].type = "lightsource"
    /\ components[i].state.power
    /\ UPDATE_DEVICE_STATE(components[i].id,
                           [wavelength |-> wavelength, output |-> FALSE])

\* what addConnection(from, to, polarity) dispatches: it validates, then
\* ADD_CONNECTION and a success alert, or an error alert alone
ConnectionRequest(from, to, polarity) ==
    LET compatibility == checkConnectionCompatibility(from, to, polarity)
    IN /\ Len(alerts) < MaxAlerts
       /\ alertIdCounter < MaxAlertId
       /\ IF compatibility.valid
          THEN /\ Len(connections) < MaxConnections
               /\ connections' = Append(connections, NewConnection(from, to, polarity))
               /\ alerts' = Append(alerts, NewAlert(alertIdCounter, "success"))
          ELSE /\ connections' = connections
               /\ alerts' = Append(alerts, NewAlert(alertIdCounter, "error"))
       /\ alertIdCounter' = alertIdCounter + 1
       /\ lastOp' = Op("addConnection", IF compatibility.valid THEN "added" ELSE "rejected")
       /\ UNCHANGED <<components, componentIdCounter, uncertaintyMode, errorSimulation>>

\* a slip: a rejected wire is dropped without a notification
addConnection_SilentReject(from, to, polarity) ==
    LET compatibility == checkConnectionCompatibility(from, to, polarity)
    IN /\ Len(alerts) < MaxAlerts
       /\ alertIdCounter < MaxAlertId
       /\ IF compatibility.valid
          THEN /\ Len(connections) < MaxConnections
               /\ connections' = Append(connections, NewConnection(from, to, polarity))
               /\ alerts' = Append(alerts, NewAlert(alertIdCounter, "success"))
               /\ alertIdCounter' = alertIdCounter + 1
          ELSE UNCHANGED <<connections, alerts, alertIdCounter>>
       /\ lastOp' = Op("addConnection", IF compatibility.valid THEN "added" ELSE "rejected")
       /\ UNCHANGED <<connectionStartPoint, components, componentIdCounter, uncertaintyMode, errorSimulation>>

\* addConnection(from, to, polarity): ADD_CONNECTION also drops the start
\* point, the error alert leaves it
addConnection(from, to, polarity) ==
    /\ ConnectionRequest(from, to, polarity)
    /\ connectionStartPoint' =
           IF checkConnectionCompatibility(from, to, polarity).valid THEN Null
           ELSE connectionStartPoint

\* removeConnection(index) -> REMOVE_CONNECTION
REMOVE_CONNECTION(index) ==
    /\ connections' = FilterIndex(connections, index)
    /\ lastOp' = Op("REMOVE_CONNECTION", "")
    /\ UNCHANGED <<connectionStartPoint, components, componentIdCounter, alerts, alertIdCounter, uncertaintyMode, errorSimulation>>

\* toggleConnectionWireType(index) -> TOGGLE_CONNECTION_WIRE_TYPE
TOGGLE_CONNECTION_WIRE_TYPE(index) ==
    /\ connections' = ToggleWireMap(connections, index)
    /\ lastOp' = Op("TOGGLE_CONNECTION_WIRE_TYPE", "")
    /\ UNCHANGED <<connectionStartPoint, components, componentIdCounter, alerts, alertIdCounter, uncertaintyMode, errorSimulation>>

\* dismissAlert(id) -> DISMISS_ALERT
DISMISS_ALERT(id) ==
    /\ alerts' = SelectSeq(alerts, LAMBDA a : a.id # id)
    /\ lastOp' = Op("DISMISS_ALERT", "")
    /\ UNCHANGED <<connectionStartPoint, components, connections, componentIdCounter, alertIdCounter, uncertaintyMode, errorSimulation>>

\* setConnectionStart(point) -> SET_CONNECTION_START
SET_CONNECTION_START(point) ==
    /\ connectionStartPoint' = point
    /\ lastOp' = Op("SET_CONNECTION_START", "")
    /\ UNCHANGED <<components, connections, componentIdCounter, alerts, alertIdCounter,
                   uncertaintyMode, errorSimulation>>

\* clearConnectionStart() -> CLEAR_CONNECTION_START
CLEAR_CONNECTION_START(outcome) ==
    /\ connectionStartPoint' = Null
    /\ lastOp' = Op("CLEAR_CONNECTION_START", outcome)
    /\ UNCHANGED <<components, connections, componentIdCounter, alerts, alertIdCounter,
                   uncertaintyMode, errorSimulation>>

\* a slip: the polarities of the two terminals are not compared
ConnectionPoint_handleClick_AnyPolarity(type, componentId, polarity) ==
    IF type = "output" /\ connectionStartPoint = Null
    THEN SET_CONNECTION_START([componentId |-> componentId, type |-> type,
                               polarity |-> polarity])
    ELSE IF type = "input" /\ connectionStartPoint # Null
    THEN IF connectionStartPoint.componentId # componentId
         THEN /\ ConnectionRequest(connectionStartPoint.componentId, componentId, polarity)
              /\ connectionStartPoint' = Null
         ELSE CLEAR_CONNECTION_START("same component")
    ELSE IF type = "output" /\ connectionStartPoint # Null
    THEN CLEAR_CONNECTION_START("cancelled")
    ELSE FALSE

\* ConnectionPoint.handleClick on the terminal (type, componentId, polarity):
\* an output terminal starts a wire, or cancels the one started; an input
\* terminal ends the wire started: addConnection and clearConnectionStart
\* when the polarities match and the components differ, clearConnectionStart
\* alone otherwise.  A click on an input terminal with nothing started
\* dispatches nothing
ConnectionPoint_handleClick(type, componentId, polarity) ==
    IF type = "output" /\ connectionStartPoint = Null
    THEN SET_CONNECTION_START([componentId |-> componentId, type |-> type,
                               polarity |-> polarity])
    ELSE IF type = "input" /\ connectionStartPoint # Null
    THEN IF connectionStartPoint.polarity # polarity
         THEN CLEAR_CONNECTION_START("polarity mismatch")
         ELSE IF connectionStartPoint.componentId # componentId
         THEN /\ ConnectionRequest(connectionStartPoint.componentId, componentId, polarity)
              /\ connectionStartPoint' = Null
         ELSE CLEAR_CONNECTION_START("same component")
    ELSE IF type = "output" /\ connectionStartPoint # Null
    THEN CLEAR_CONNECTION_START("cancelled")
    ELSE FALSE

\* toggleUncertaintyMode() -> TOGGLE_UNCERTAINTY_MODE
TOGGLE_UNCERTAINTY_MODE ==
    LET newMode == ~uncertaintyMode
    IN /\ uncertaintyMode' = newMode
       /\ \E drawn \in [1 .. Len(components) -> COMPLIANCE_STATUSES] :
             components' = AssignCompliance(components, newMode, drawn)
       /\ lastOp' = Op("TOGGLE_UNCERTAINTY_MODE", IF newMode THEN "on" ELSE "off")
       /\ UNCHANGED <<connectionStartPoint, connections, componentIdCounter, alerts, alertIdCounter,
                      errorSimulation>>

\* toggleErrorSimulation(errorType) -> TOGGLE_ERROR_SIMULATION
TOGGLE_ERROR_SIMULATION(errorType) ==
    /\ errorSimulation' = ToggleErrorType(errorSimulation, errorType)
    /\ lastOp' = Op("TOGGLE_ERROR_SIMULATION", "")
    /\ UNCHANGED <<connectionStartPoint, components, connections, componentIdCounter, alerts, alertIdCounter,
                   uncertaintyMode>>

\* clearAll() -> CLEAR_ALL: the store is the initial state again
CLEAR_ALL ==
    /\ components' = <<>>
    /\ connections' = <<>>
    /\ componentIdCounter' = 0
    /\ connectionStartPoint' = Null
    /\ alerts' = <<>>
    /\ alertIdCounter' = 0
    /\ uncertaintyMode' = FALSE
    /\ errorSimulation' = NoErrorSimulation
    /\ lastOp' = Op("CLEAR_ALL", "")

\* loadProject(projectData) -> LOAD_PROJECT
LOAD_PROJECT(doc) ==
    /\ components' = doc.components
    /\ connections' = doc.connections
    /\ componentIdCounter' = LoadIdCounter(doc.components)
    /\ lastOp' = Op("LOAD_PROJECT", "")
    /\ UNCHANGED <<connectionStartPoint, alerts, alertIdCounter, uncertaintyMode, errorSimulation>>

\* SimulatorPage.handleLoadProject, from the parsed file on:
\* loadProject({ components: projectData.components || [],
\*               connections: projectData.connections || [] })
handleLoadProject(projectData) ==
    LOAD_PROJECT([components |-> IF "components" \in DOMAIN projectData
                                 THEN projectData.components ELSE <<>>,
                  connections |-> IF "connections" \in DOMAIN projectData
                                  THEN projectData.connections ELSE <<>>])

\* the double below every finite one, written as an integer outside every
\* quantity of the model
NegativeInfinity == -2147483647
\* null read where a number was saved, written as an integer outside every
\* quantity of the model
NullNumber == 2147483647

\* buffers of the calibrator's keypad: 10, 1000, and the buffer after 1 and
\* twenty-one zeros, the sign key (String(val * -1) writes "-1e+21"), 9 and 9
TypedBuffers == {"10", "1000", "-1e+2199"}

\* parseFloat(primaryBuffer), in steps of 0.05
parseFloat(buffer) ==
    CASE buffer = "10" -> 200
      [] buffer = "1000" -> 20000
      [] buffer = "-1e+2199" -> NegativeInfinity

\* the keys under which the store keeps numbers
NumberKeys == {"id", "x", "y", "value", "wavelength", "from", "to", "resistance"}
\* the keys under which the store keeps objects
ObjectKeys == {"state", "wireProperties"}

\* JSON.stringify of an object: a number that is not finite is written as
\* null, every other value as itself
RECURSIVE JSON_stringifyObject(_)
JSON_stringifyObject(object) ==
    [key \in DOMAIN object |->
        IF key \in NumberKeys
        THEN IF object[key] = NegativeInfinity
             THEN [token |-> "null", text |-> 0]
             ELSE [token |-> "number", text |-> object[key]]
        ELSE IF key \in ObjectKeys THEN JSON_stringifyObject(object[key])
        ELSE object[key]]

\* JSON.parse of the text of an object
RECURSIVE JSON_parseObject(_)
JSON_parseObject(text) ==
    [key \in DOMAIN text |->
        IF key \in NumberKeys
        THEN IF text[key].token = "null" THEN NullNumber ELSE text[key].text
        ELSE IF key \in ObjectKeys THEN JSON_parseObject(text[key])
        ELSE text[key]]

\* JSON.stringify(projectData, null, 2)
JSON_stringify(projectData) ==
    [version |-> projectData.version,
     components |-> [i \in 1 .. Len(projectData.components) |->
                        JSON_stringifyObject(projectData.components[i])],
     connections |-> [i \in 1 .. Len(projectData.connections) |->
                         JSON_stringifyObject(projectData.connections[i])]]

\* JSON.parse(event.target.result)
JSON_parse(json) ==
    [version |-> json.version,
     components |-> [i \in 1 .. Len(json.components) |->
                        JSON_parseObject(json.components[i])],
     connections |-> [i \in 1 .. Len(json.connections) |->
                         JSON_parseObject(json.connections[i])]]

\* handleSaveProject: the text of the downloaded file
handleSaveProject ==
    JSON_stringify([version |-> "2.0", components |-> components,
                    connections |-> connections])

\* the file just saved is picked in the load dialog
SaveThenLoad == handleLoadProject(JSON_parse(handleSaveProject))

\* a buffer and a unit typed on a calibrator's keypad, then ENTER
KeypadEnter ==
    \E i \in 1 .. Len(components), buffer \in TypedBuffers, u \in EnterUnits :
        Fluke5500A_handleEnter(i, parseFloat(buffer), u)

----------------------------------------------------------------------------
(* Views of the measuring devices: React state, refs and timers *)

\* the device types whose component runs an uncertainty scheduler in the model
SchedulerTypes == {"multimeter", "u3606a"}

\* the ids a timer can belong to
TimerOwners == IdInputs

\* (Math.random() - 0.5) * 2 is draw / RandomScale for a draw in Draws: it
\* reaches -1 and stays below 1
Draws == (0 - RandomScale) .. (RandomScale - 1)

\* a published value: base + (draw / RandomScale) * |base| * (tolerance / 100),
\* kept as the code composes it; tolerances are counted in steps of 0.0005 percent
Sample(base, draw, tolerance) == [base |-> base, draw |-> draw, tolerance |-> tolerance]

\* what one updateFluctuation takes from Math.random(): the draw of the
\* offset, and for the hook a second draw, of its noise; the Multimeter's
\* second draw is the delay of its next timeout, which is not kept
Randoms(type) ==
    [draw : Draws, noise : IF type = "multimeter" THEN {0} ELSE Draws]

\* Math.abs(baseValue) * 0.0001 || 0.0001 in steps of 0.000005: the value is
\* counted in steps of 0.05
minNoise(base) ==
    LET magnitude == IF base.value < 0 THEN 0 - base.value ELSE base.value
    IN IF magnitude * base.num = 0 THEN Exactly(20)
       ELSE Scaled(magnitude, base.num, base.den)

\* the value the hook publishes: the sample plus
\* (Math.random() - 0.5) * minNoise, which is noise / (2 * RandomScale) of minNoise
NoisySample(base, random, tolerance) ==
    [base |-> base, draw |-> random.draw, tolerance |-> tolerance,
     noise |-> random.noise, minNoise |-> minNoise(base)]

\* setFluctuatingValue(...) of one updateFluctuation, of the Multimeter and
\* of the hook
Published(type, simulationState, random) ==
    IF type = "multimeter"
    THEN Sample(simulationState.baseValue, random.draw, simulationState.tolerance)
    ELSE NoisySample(simulationState.baseValue, random, simulationState.tolerance)

\* config.tolerance of the Multimeter, and the 0.01 taken for a mode it lacks
MultimeterTolerance(mode) ==
    CASE mode = "DC V" -> 30
      [] mode = "AC V" -> 120
      [] mode = "DC A" -> 100
      [] mode = "AC A" -> 300
      [] mode = "Ohm" -> 80
      [] mode = "F" -> 2000
      [] mode = "Hz" -> 10
      [] OTHER -> 20

\* config.tolerance of the U3606A, and the 0.01 taken for a dial position it lacks
U3606ATolerance(position) ==
    CASE position = "DCV" -> 7
      [] position = "ACV" -> 120
      [] position = "DCA" -> 100
      [] position = "ACA" -> 200
      [] position = "OHM" -> 20
      [] position = "FREQ" -> 10
      [] OTHER -> 20

\* a slip: the two factors are exchanged
ScaledByCompliance_Exchanged(tolerance, complianceStatus) ==
    CASE complianceStatus = "out_of_tolerance" -> tolerance * 3
      [] complianceStatus = "non_compliance" -> tolerance * 10
      [] OTHER -> tolerance

\* the tolerance widened by the compliance status
ScaledByCompliance(tolerance, complianceStatus) ==
    CASE complianceStatus = "out_of_tolerance" -> tolerance * 10
      [] complianceStatus = "non_compliance" -> tolerance * 3
      [] OTHER -> tolerance

\* U3606A.getConnectedValue: the pairs are found as the Multimeter finds them,
\* the value is the programmed value of a fluke5500a with its output on
U3606A_getConnectedValue(meterId) ==
    LET Resolved(hiConn, loConn, auxHiConn, auxLoConn) ==
            LET normal == hiConn # Null /\ loConn # Null /\ hiConn.from = loConn.from
                aux == auxHiConn # Null /\ auxLoConn # Null /\ auxHiConn.from = auxLoConn.from
                sourceId == IF normal THEN hiConn.from
                            ELSE IF aux THEN auxHiConn.from ELSE NoId
                Sourced(source) ==
                    IF source = Null \/ ~source.state.power THEN Null
                    ELSE IF source.type = "fluke5500a" /\ source.state.output
                    THEN [sourceId |-> sourceId, isAuxConnection |-> ~normal /\ aux,
                          active |-> TRUE, value |-> Exactly(source.state.value)]
                    ELSE Null
            IN IF ~normal /\ ~aux THEN Null
               ELSE CHOOSE result \in {Sourced(source) :
                                          source \in {ComponentById(sourceId)}} : TRUE
    IN CHOOSE result \in {Resolved(hiConn, loConn, auxHiConn, auxLoConn) :
                             hiConn \in {ConnectionTo(meterId, "hi")},
                             loConn \in {ConnectionTo(meterId, "lo")},
                             auxHiConn \in {ConnectionTo(meterId, "aux_hi")},
                             auxLoConn \in {ConnectionTo(meterId, "aux_lo")}} : TRUE

\* const connectedValue = getConnectedValue() in the component with this id
connectedValue(id) ==
    IF ComponentById(id).type = "u3606a" THEN U3606A_getConnectedValue(id)
    ELSE getConnectedValue(id)

\* baseValue of the component with this id, from the connectedValue of this
\* render: the Multimeter shows the source's frequency on its Hz range, every
\* device its own state.value when unconnected
baseValue(id, connected) ==
    LET state == ComponentById(id).state
    IN IF ComponentById(id).type = "multimeter" /\ state.mode = "Hz" /\ connected # Null
       THEN IF connected.mode \in {"AC Voltage", "AC Current"}
            THEN Exactly(connected.frequency)
            ELSE Exactly(0)
       ELSE IF connected # Null THEN connected.value
       ELSE Exactly(state.value)

\* Multimeter.getTolerance(), and getEffectiveTolerance() of the hook called
\* with the tolerance of the U3606A's dial position, which stays at DCV
getTolerance(id, connected) ==
    LET state == ComponentById(id).state
    IN IF ComponentById(id).type = "multimeter"
       THEN ScaledByCompliance(
                MultimeterTolerance(IF connected # Null THEN connected.mappedMode
                                    ELSE state.mode),
                state.complianceStatus)
       ELSE ScaledByCompliance(U3606ATolerance("DCV"), state.complianceStatus)

\* the dependency list of the fluctuation effect; connectedValue?.active is
\* true for every connectedValue there is
EffectDeps(id, connected) ==
    IF ComponentById(id).type = "multimeter"
    THEN <<uncertaintyMode, errorSimulation["resolutionUncertainty"],
           connected # Null, ComponentById(id).state.power>>
    ELSE <<uncertaintyMode, connected # Null, baseValue(id, connected),
           getTolerance(id, connected)>>

\* the effect's condition, read off its dependency list: shouldFluctuate of
\* the Multimeter, uncertaintyMode && isActive of the hook
shouldFluctuate(type, deps) ==
    IF type = "multimeter" THEN (deps[1] \/ deps[2]) /\ deps[3] /\ deps[4]
    ELSE deps[1] /\ deps[2]

\* what one render of the component with this id hands to its effects;
\* simulationState is what a tick computes with: simulationStateRef.current of
\* the Multimeter, the baseValue and getEffectiveTolerance that the callback
\* of the hook closes over
Rendering(id, connected) ==
    [type |-> ComponentById(id).type,
     deps |-> EffectDeps(id, connected),
     simulationState |-> [baseValue |-> baseValue(id, connected),
                          tolerance |-> getTolerance(id, connected)]]

\* the local state of a component that has not run its effects yet
NoInstance == [mounted |-> FALSE]

\* the instance a render continues from: a component keeps its local state
\* across renders while its key, the id, and its type stay
Continued(inst, views, id) ==
    IF id \in DOMAIN inst /\ id \in DOMAIN views /\ inst[id].type = views[id].type
    THEN inst[id] ELSE NoInstance

\* the timers an instance leaves pending when its effect's cleanup has run:
\* the cleanup exists after a run that fluctuated, and clears the timer
\* that fluctuationIntervalRef names
AfterCleanup(prev, pending) ==
    IF prev # NoInstance /\ shouldFluctuate(prev.type, prev.deps) /\ prev.refPending
    THEN pending - 1 ELSE pending

\* a slip: the effect neither returns a cleanup nor clears a timer
AfterEffects_NeverCleared(prev, pending, view, random) ==
    IF prev # NoInstance /\ prev.deps = view.deps
    THEN [instance |-> [prev EXCEPT !.simulationState =
                            IF view.type = "multimeter" THEN view.simulationState ELSE @],
          pending |-> pending]
    ELSE IF shouldFluctuate(view.type, view.deps)
    THEN [instance |->
              [type |-> view.type, deps |-> view.deps,
               fluctuatingValue |-> Published(view.type, view.simulationState, random),
               simulationState |-> view.simulationState,
               refPending |-> TRUE,
               cadence |-> IF prev = NoInstance THEN 1 ELSE 1 - prev.cadence],
          pending |-> pending + 1]
    ELSE [instance |->
              [type |-> view.type, deps |-> view.deps,
               fluctuatingValue |-> Null,
               simulationState |-> view.simulationState,
               refPending |-> FALSE,
               cadence |-> IF prev = NoInstance THEN 0 ELSE prev.cadence],
          pending |-> pending]

\* the effects that follow one render, from the local state prev and the
\* count of the instance's pending timers: the local state and the count
\* afterwards.  The ref of the Multimeter is written after every render; the
\* fluctuation effect runs on mount and when a dependency changed: the
\* cleanup of the run before, then either the first sample and a timer, or
\* fluctuatingValue null and the named timer cleared
AfterEffects(prev, pending, view, random) ==
    IF prev # NoInstance /\ prev.deps = view.deps
    THEN [instance |-> [prev EXCEPT !.simulationState =
                            IF view.type = "multimeter" THEN view.simulationState ELSE @],
          pending |-> pending]
    ELSE IF shouldFluctuate(view.type, view.deps)
    THEN [instance |->
              [type |-> view.type, deps |-> view.deps,
               fluctuatingValue |-> Published(view.type, view.simulationState, random),
               simulationState |-> view.simulationState,
               refPending |-> TRUE,
               cadence |-> IF prev = NoInstance THEN 1 ELSE 1 - prev.cadence],
          pending |-> AfterCleanup(prev, pending) + 1]
    ELSE [instance |->
              [type |-> view.type, deps |-> view.deps,
               fluctuatingValue |-> Null,
               simulationState |-> view.simulationState,
               refPending |-> FALSE,
               cadence |-> IF prev = NoInstance THEN 0 ELSE prev.cadence],
          pending |-> IF prev # NoInstance /\ prev.refPending
                      THEN pending - 1 ELSE pending]

\* the ids whose component is on the canvas and runs a scheduler
MountedIds ==
    {components[i].id :
        i \in {j \in 1 .. Len(components) : components[j].type \in SchedulerTypes}}

\* a slip: a component that leaves the canvas keeps its timer
Unmounted_KeepsTimer(inst, tim, views, id) ==
    tim[id]

\* the timers of id that stay pending when its component leaves the canvas,
\* or is replaced by one of another type: the cleanup runs
Unmounted(inst, tim, views, id) ==
    IF id \in DOMAIN inst /\ Continued(inst, views, id) = NoInstance
    THEN AfterCleanup(inst[id], tim[id])
    ELSE tim[id]

\* one commit of the canvas for the component with this id, from the local
\* states inst and the timers tim
Committed(inst, tim, views, id, random) ==
    AfterEffects(Continued(inst, views, id), Unmounted(inst, tim, views, id),
                 views[id], random)

\* the displayed value of the component with this id
displayValue(id) ==
    LET type == ComponentById(id).type
        fluctuatingValue == instances[id].fluctuatingValue
        enabled == IF type = "multimeter"
                   THEN uncertaintyMode \/ errorSimulation["resolutionUncertainty"]
                   ELSE uncertaintyMode
    IN IF enabled /\ fluctuatingValue # Null THEN fluctuatingValue
       ELSE baseValue(id, connectedValue(id))

\* a dispatch and the commit that follows it: every mounted component is
\* rendered from the new store and its effects run, each with its own draw
Rendered(Act) ==
    /\ Act
    /\ UNCHANGED <<heldIds, alertItems>>
    /\ \E inst \in {instances}, tim \in {timers} :
          \E connected \in {[id \in MountedIds' |-> connectedValue(id)']} :
          \E views \in {[id \in DOMAIN connected |-> Rendering(id, connected[id])']} :
             \E draws \in {f \in [DOMAIN views -> UNION {Randoms(type) : type \in SchedulerTypes}] :
                             \A id \in DOMAIN views : f[id] \in Randoms(views[id].type)} :
                /\ instances' = [id \in DOMAIN views |->
                                    Committed(inst, tim, views, id, draws[id]).instance]
                /\ timers' = [id \in TimerOwners |->
                                 IF id \in DOMAIN views
                                 THEN Committed(inst, tim, views, id, draws[id]).pending
                                 ELSE Unmounted(inst, tim, views, id)]

\* a timer of the component with key id fires: updateFluctuation publishes a
\* sample from what the instance last stored for it; the Multimeter's
\* callback sets the next timeout, the hook's interval stays
Tick(id, random) ==
    /\ timers[id] > 0
    /\ id \in DOMAIN instances => random \in Randoms(instances[id].type)
    /\ IF id \in DOMAIN instances
       THEN instances' =
                [instances EXCEPT
                    ![id].fluctuatingValue =
                        Published(instances[id].type, instances[id].simulationState,
                                  random),
                    ![id].refPending = IF instances[id].type = "multimeter"
                                       THEN TRUE ELSE @]
       ELSE UNCHANGED instances
    /\ lastOp' = Op("updateFluctuation", "")
    /\ UNCHANGED <<components, connections, componentIdCounter, connectionStartPoint,
                   alerts, alertIdCounter, uncertaintyMode, errorSimulation, heldIds, timers,
                   alertItems>>

\* Multimeter.togglePower on the panel of the i-th component
Multimeter_togglePower(i) ==
    /\ i \in 1 .. Len(components)
    /\ components[i].type = "multimeter"
    /\ UPDATE_DEVICE_STATE(components[i].id, [power |-> ~components[i].state.power])

\* Fluke5500A.handleAdjust on the panel of the i-th component: the value is
\* stepped by 0.1 below 10 and by 1 from 10 on
Fluke5500A_handleAdjust(i, direction) ==
    /\ i \in 1 .. Len(components)
    /\ components[i].type = "fluke5500a"
    /\ components[i].state.power
    /\ LET value == components[i].state.value
           step == IF (IF value < 0 THEN 0 - value ELSE value) < 200 THEN 2 ELSE 20
       IN /\ value + step * direction \in AdjustedValues
          /\ UPDATE_DEVICE_STATE(components[i].id, [value |-> value + step * direction])

\* AnalogMultimeter.getConnectedValue: the hi and lo wires from one source, a
\* powered fluke5500a with its output on
AnalogMultimeter_getConnectedValue(meterId) ==
    LET Resolved(hiConn, loConn) ==
            LET Sourced(source) ==
                    IF source = Null \/ ~source.state.power THEN Null
                    ELSE IF source.type = "fluke5500a" /\ source.state.output
                    THEN [value |-> source.state.value, mode |-> source.state.mode,
                          active |-> TRUE]
                    ELSE Null
            IN IF hiConn = Null \/ loConn = Null \/ hiConn.from # loConn.from THEN Null
               ELSE CHOOSE result \in {Sourced(source) :
                                          source \in {ComponentById(hiConn.from)}} : TRUE
    IN CHOOSE result \in {Resolved(hiConn, loConn) :
                             hiConn \in {ConnectionTo(meterId, "hi")},
                             loConn \in {ConnectionTo(meterId, "lo")}} : TRUE

\* the needle effect of the AnalogMultimeter that is the i-th component: it
\* runs after a render in which getConnectedValue is a new function, which
\* is every render that follows a change of components or connections, and
\* writes what it read into the device's state.  The knob stays at 10 V DC,
\* where the meter is on; the needle's angle is not kept
AnalogMultimeter_needleEffect(i) ==
    /\ i \in 1 .. Len(components)
    /\ components[i].type = "analog_multimeter"
    /\ LET connected == AnalogMultimeter_getConnectedValue(components[i].id)
       IN UPDATE_DEVICE_STATE(components[i].id,
                              [value |-> IF connected # Null THEN connected.value ELSE 0])

----------------------------------------------------------------------------
(* Specifications *)

\* the models that do not drag devices drop every device at the origin
AddComponent == \E t \in DeviceTypes : ADD_COMPONENT(t, 0, 0)
RemoveComponent == \E id \in IdInputs : REMOVE_COMPONENT(id)
TogglePower == \E i \in 1 .. Len(components) : Fluke5500A_togglePower(i)
ToggleOutput == \E i \in 1 .. Len(components) : Fluke5500A_toggleOutput(i)
AddConnection == \E f \in IdInputs, t \in IdInputs, p \in WiredPolarities : addConnection(f, t, p)
RemoveConnection == \E i \in IndexInputs : REMOVE_CONNECTION(i)
ToggleWire == \E i \in IndexInputs : TOGGLE_CONNECTION_WIRE_TYPE(i)
DismissAlert == \E id \in 0 .. MaxAlertId : DISMISS_ALERT(id)
ClearAll == CLEAR_ALL
LoadProject == \E doc \in ProjectDocs : LOAD_PROJECT(doc)
LoadBench == \E doc \in BenchDocs : LOAD_PROJECT(doc)
\* a device is dragged along the diagonal of the canvas
MoveComponent == \E id \in IdInputs, c \in Coordinates :
                     UPDATE_COMPONENT_POSITION(id, c, c)
UpdateState == \E id \in IdInputs, power \in BOOLEAN :
                   UPDATE_DEVICE_STATE(id, [power |-> power])
ToggleUncertaintyMode == TOGGLE_UNCERTAINTY_MODE
ToggleErrorSimulation == \E errorType \in ErrorTypes : TOGGLE_ERROR_SIMULATION(errorType)
\* the toolbar's loading-error switch alone
ToggleLoadingError == TOGGLE_ERROR_SIMULATION("loadingError")
\* projects saved before any wire was drawn
LoadUnwired == \E doc \in {EmptyDoc, SingleDoc} : LOAD_PROJECT(doc)

\* a value and a unit typed on a calibrator's keypad, then ENTER
Enter == \E i \in 1 .. Len(components), v \in EnterValues, u \in EnterUnits :
             Fluke5500A_handleEnter(i, v, u)
\* the benches on which readings are compared with the programmed value
LoadReadingBench == \E doc \in {BenchDoc, AuxDoc} : LOAD_PROJECT(doc)

\* the benches on which displayed values are studied
LoadSchedulerBench == \E doc \in {MeterBenchDoc, HookBenchDoc} : LOAD_PROJECT(doc)
ToggleResolutionUncertainty == TOGGLE_ERROR_SIMULATION("resolutionUncertainty")
\* the calibrator's knob turned one step up or down
Adjust == \E i \in 1 .. Len(components), direction \in {-1, 1} :
              Fluke5500A_handleAdjust(i, direction)
\* the calibrator's mode stepped to voltage or to capacitance
SetMode == \E i \in 1 .. Len(components), newMode \in {"DC Voltage", "Capacitance"} :
               Fluke5500A_handleSetMode(i, newMode)
MeterPower == \E i \in 1 .. Len(components) : Multimeter_togglePower(i)
TimerFires == \E id \in TimerOwners :
                 \E random \in UNION {Randoms(type) : type \in SchedulerTypes} :
                    Tick(id, random)
\* the delete key of a device on the canvas, and a wire that is there pulled
DeleteDevice == \E i \in 1 .. Len(components) : REMOVE_COMPONENT(components[i].id)
PullWire == \E i \in 1 .. Len(connections) : REMOVE_CONNECTION(i - 1)
\* the terminals a device shows: outputs on a calibrator, inputs on a unit
\* under calibration
TerminalType(deviceType) ==
    CASE DeviceRole(deviceType) = "calibrator" -> "output"
      [] DeviceRole(deviceType) = "uuc" -> "input"
      [] OTHER -> "none"

\* a click on a terminal of a device on the canvas
Click == \E i \in 1 .. Len(components), polarity \in WiredPolarities :
             ConnectionPoint_handleClick(TerminalType(components[i].type),
                                         components[i].id, polarity)
LoadFile == \E projectData \in ProjectFiles : handleLoadProject(projectData)
LoadNeedleBench == LOAD_PROJECT(NeedleBenchDoc)
NeedleEffect == \E i \in 1 .. Len(components) : AnalogMultimeter_needleEffect(i)

\* heldIds is history: a step of a specification about ids records the ids
\* that components hold after it, every other specification leaves it alone
Recording(Act) ==
    Act /\ heldIds' = heldIds \cup IdSet(components')
        /\ UNCHANGED <<instances, timers, alertItems>>

\* the store alone: the views are left out
Plain(Act) == Act /\ UNCHANGED <<heldIds, instances, timers, alertItems>>

\* the reducer cases that return a new components or a new connections array
ArrayWriters ==
    {"ADD_COMPONENT", "REMOVE_COMPONENT", "UPDATE_COMPONENT_POSITION",
     "UPDATE_DEVICE_STATE", "ADD_CONNECTION", "addConnection", "REMOVE_CONNECTION",
     "TOGGLE_CONNECTION_WIRE_TYPE", "CLEAR_ALL", "LOAD_PROJECT",
     "TOGGLE_UNCERTAINTY_MODE"}

\* the keys of the analog multimeters among comps
NeedleIds(comps) == {comps[i].id : i \in {j \in 1 .. Len(comps) :
                                             comps[j].type = "analog_multimeter"}}

\* the analog multimeters after a commit: one is mounted with its needle
\* effect to run; getConnectedValue of one that stays is a new function when
\* components or connections is a new array, and the effect is to run again.
\* dispatched marks the meter whose effect made the dispatch, runs counts
\* its dispatches modulo 2
NeedlesRendered(needles, comps, opType, dispatcher) ==
    [id \in NeedleIds(comps) |->
        IF id \notin DOMAIN needles
        THEN [type |-> "analog_multimeter", pending |-> TRUE, dispatched |-> FALSE,
              runs |-> 0]
        ELSE [type |-> "analog_multimeter",
              pending |-> IF id = dispatcher THEN opType \in ArrayWriters
                          ELSE needles[id].pending \/ opType \in ArrayWriters,
              dispatched |-> id = dispatcher,
              runs |-> IF id = dispatcher THEN 1 - needles[id].runs
                       ELSE needles[id].runs]]

\* a dispatch from the user and the commit that follows it, where the
\* effects of the analog multimeters are followed
Drawn(Act) ==
    /\ Act
    /\ UNCHANGED <<heldIds, timers, alertItems>>
    /\ instances' = NeedlesRendered(instances, components', lastOp'.type, -1)

\* the needle effect of the i-th component runs, being due, and dispatches
NeedleRuns(i) ==
    /\ i \in 1 .. Len(components)
    /\ components[i].id \in DOMAIN instances
    /\ instances[components[i].id].pending
    /\ AnalogMultimeter_needleEffect(i)
    /\ UNCHANGED <<heldIds, timers, alertItems>>
    /\ instances' = NeedlesRendered(instances, components', lastOp'.type,
                                    components[i].id)

NeedleEffectRuns == \E i \in 1 .. Len(components) : NeedleRuns(i)

\* the 4000 ms of an AlertItem's timer, in ticks of the model's clock
AlertDelay == 2
\* alerts are added while fewer than MaxShown have been shown
MaxShown == MaxAlerts + 2

\* alerts.map(alert => <AlertItem key={alert.id} .../>): the keys rendered
AlertKeys(shown) == {shown[i].id : i \in 1 .. Len(shown)}

\* the AlertItems after ConnectionAlert is rendered with the alerts shown: an
\* item is mounted for a new key and sets its 4000 ms timer; an item whose
\* key is gone is unmounted and its cleanup clears that timer; an item that
\* stays is handed a new onDismiss, so its effect runs again, clearing the
\* timer and setting a new one. serial tells apart the alerts ever shown
AlertItemsRendered(items, created, shown) ==
    LET fresh == AlertKeys(shown) \ DOMAIN items
    IN [id \in AlertKeys(shown) |->
           IF id \in fresh
           THEN [serial |-> created + 1, armed |-> TRUE, remaining |-> AlertDelay]
           ELSE [items[id] EXCEPT !.armed = TRUE, !.remaining = AlertDelay]]

\* a dispatch and the commit of the canvas that follows it, with the exit
\* timers that stay pending
Commit(Act, exits) ==
    /\ Act
    /\ UNCHANGED <<heldIds, instances, timers>>
    /\ LET fresh == AlertKeys(alerts') \ DOMAIN alertItems.items
       IN /\ alertItems.created + Cardinality(fresh) <= MaxShown
          /\ alertItems' =
                 [items |-> AlertItemsRendered(alertItems.items, alertItems.created,
                                               alerts'),
                  exits |-> exits,
                  created |-> alertItems.created + Cardinality(fresh)]

Shown(Act) == Commit(Act, alertItems.exits)

\* the clock advances by one tick: no timer that is due is passed over
TimePasses ==
    /\ \E id \in DOMAIN alertItems.items : alertItems.items[id].armed
    /\ \A id \in DOMAIN alertItems.items :
          alertItems.items[id].armed => alertItems.items[id].remaining > 0
    /\ alertItems' =
           [alertItems EXCEPT
               !.items = [id \in DOMAIN @ |->
                             IF @[id].armed THEN [@[id] EXCEPT !.remaining = @ - 1]
                             ELSE @[id]]]
    /\ lastOp' = Op("timePasses", "")
    /\ UNCHANGED <<components, connections, componentIdCounter, connectionStartPoint,
                   alerts, alertIdCounter, uncertaintyMode, errorSimulation, instances,
                   timers, heldIds>>

\* the pending setTimeout(onDismiss, 300) of an item: the alert id its
\* onDismiss names, the alert it was set for, and what set it
ExitTimer(id, cause) ==
    [id |-> id, serial |-> alertItems.items[id].serial, cause |-> cause]

\* the 4000 ms timer of the AlertItem with key id fires: the item starts to
\* leave and sets the 300 ms timer
AlertItem_autoDismiss(id) ==
    /\ id \in DOMAIN alertItems.items
    /\ alertItems.items[id].armed
    /\ alertItems.items[id].remaining = 0
    /\ alertItems' = [alertItems EXCEPT !.items[id].armed = FALSE,
                                        !.exits = @ \cup {ExitTimer(id, "timer")}]
    /\ lastOp' = Op("AlertItem.autoDismiss", "")
    /\ UNCHANGED <<components, connections, componentIdCounter, connectionStartPoint,
                   alerts, alertIdCounter, uncertaintyMode, errorSimulation, instances,
                   timers, heldIds>>

\* AlertItem.handleClick on the item with key id: the 300 ms timer is set,
\* the 4000 ms timer stays
AlertItem_handleClick(id) ==
    /\ id \in DOMAIN alertItems.items
    /\ alertItems' = [alertItems EXCEPT !.exits = @ \cup {ExitTimer(id, "click")}]
    /\ lastOp' = Op("AlertItem.handleClick", "")
    /\ UNCHANGED <<components, connections, componentIdCounter, connectionStartPoint,
                   alerts, alertIdCounter, uncertaintyMode, errorSimulation, instances,
                   timers, heldIds>>

\* a 300 ms timer fires: onDismiss() -> dismissAlert(alert.id)
AlertItem_exit(timer) ==
    /\ timer \in alertItems.exits
    /\ Commit(DISMISS_ALERT(timer.id), alertItems.exits \ {timer})

AutoDismiss == \E id \in 0 .. MaxAlertId : AlertItem_autoDismiss(id)
ClickAlert == \E id \in 0 .. MaxAlertId : AlertItem_handleClick(id)
ExitTimerFires == \E timer \in alertItems.exits : AlertItem_exit(timer)

\* placing and wiring, with neither clearAll nor loadProject
NextNoReset ==
    \/ Recording(AddComponent)
    \/ Recording(RemoveComponent)
    \/ Recording(AddConnection)
    \/ Recording(RemoveConnection)
    \/ Recording(ToggleWire)
    \/ Recording(DismissAlert)

\* the component list over a store's lifetime, clearAll and loadProject included
NextSession ==
    \/ Recording(AddComponent)
    \/ Recording(RemoveComponent)
    \/ Recording(ClearAll)
    \/ Recording(LoadProject)

\* the wiring operations, without loadProject
NextNoLoad ==
    \/ Plain(AddComponent)
    \/ Plain(RemoveComponent)
    \/ Plain(AddConnection)
    \/ Plain(RemoveConnection)
    \/ Plain(ToggleWire)
    \/ Plain(DismissAlert)
    \/ Plain(ClearAll)

\* the store as the validator sees it: devices and wires placed and removed,
\* the bench cleared, projects loaded
Next ==
    \/ Plain(AddComponent)
    \/ Plain(RemoveComponent)
    \/ Plain(AddConnection)
    \/ Plain(RemoveConnection)
    \/ Plain(DismissAlert)
    \/ Plain(ClearAll)
    \/ Plain(LoadProject)

\* a bench in use: devices placed, removed and loaded, calibrator panels
\* operated, wires removed and toggled
NextBench ==
    \/ Plain(AddComponent)
    \/ Plain(RemoveComponent)
    \/ Plain(LoadBench)
    \/ Plain(TogglePower)
    \/ Plain(ToggleOutput)
    \/ Plain(RemoveConnection)
    \/ Plain(ToggleWire)

\* the toolbar's switches together with every operation on devices and wires
NextFlags ==
    \/ Plain(AddComponent)
    \/ Plain(RemoveComponent)
    \/ Plain(MoveComponent)
    \/ Plain(UpdateState)
    \/ Plain(AddConnection)
    \/ Plain(RemoveConnection)
    \/ Plain(ToggleWire)
    \/ Plain(ClearAll)
    \/ Plain(LoadUnwired)
    \/ Plain(ToggleUncertaintyMode)
    \/ Plain(ToggleErrorSimulation)

\* devices and wires edited on the canvas, with one toolbar switch
NextEdit ==
    \/ Plain(AddComponent)
    \/ Plain(RemoveComponent)
    \/ Plain(MoveComponent)
    \/ Plain(UpdateState)
    \/ Plain(RemoveConnection)
    \/ Plain(ToggleWire)
    \/ Plain(LoadProject)
    \/ Plain(ToggleLoadingError)

\* uncertainty mode switched while devices are placed, operated and loaded
NextCompliance ==
    \/ Plain(AddComponent)
    \/ Plain(RemoveComponent)
    \/ Plain(UpdateState)
    \/ Plain(LoadBench)
    \/ Plain(ToggleUncertaintyMode)

\* a wired bench whose calibrator is programmed and switched, whose wires are
\* degraded and pulled, with the loading-error switch
NextReading ==
    \/ Plain(LoadReadingBench)
    \/ Plain(Enter)
    \/ Plain(ToggleOutput)
    \/ Plain(ToggleWire)
    \/ Plain(RemoveConnection)
    \/ Plain(ToggleLoadingError)

\* a bench whose meter shows a fluctuating value: the toolbar's two switches,
\* the calibrator's panel, the meter's power key, wires and devices removed,
\* and the timers of the views
NextScheduler ==
    \/ Rendered(LoadSchedulerBench)
    \/ Rendered(ToggleUncertaintyMode)
    \/ Rendered(ToggleResolutionUncertainty)
    \/ Rendered(ToggleOutput)
    \/ Rendered(Adjust)
    \/ Rendered(SetMode)
    \/ Rendered(MeterPower)
    \/ Rendered(PullWire)
    \/ Rendered(DeleteDevice)
    \/ TimerFires

\* a bench whose analog meter follows the calibrator
NextNeedle ==
    \/ Plain(LoadNeedleBench)
    \/ Plain(ToggleOutput)
    \/ Plain(TogglePower)
    \/ Plain(Adjust)
    \/ Plain(ToggleWire)
    \/ Plain(PullWire)
    \/ Plain(ToggleUncertaintyMode)
    \/ Plain(NeedleEffect)

\* project files opened, and the devices they bring dragged and deleted
NextLoad ==
    \/ Plain(LoadFile)
    \/ Plain(MoveComponent)
    \/ Plain(DeleteDevice)
    \/ Plain(ToggleLoadingError)
    \/ Plain(ClearAll)

\* wires drawn by clicking terminals, while devices come and go
NextWiring ==
    \/ Plain(AddComponent)
    \/ Plain(DeleteDevice)
    \/ Plain(Click)
    \/ Plain(DismissAlert)
    \/ Plain(ClearAll)
    \/ Plain(LoadProject)

Spec == Init /\ [][Next]_vars

SpecNeedle == Init /\ [][NextNeedle]_vars

SpecLoad == Init /\ [][NextLoad]_vars

SpecWiring == Init /\ [][NextWiring]_vars

\* the source devices of the sidebar
SourceTypes == {"fluke5500a", "fluke5522a", "sma100a", "lightsource"}
\* the wavelengths of the light source's selector
WAVELENGTHS == {850, 1310, 1490, 1550, 1625}

AddSource == \E deviceType \in SourceTypes : ADD_COMPONENT(deviceType, 0, 0)
Reset == \E i \in 1 .. Len(components) : Fluke5500A_handleReset(i)
Standby == \E i \in 1 .. Len(components) : Fluke5500A_standby(i)
Fluke5522A_Power == \E i \in 1 .. Len(components) : Fluke5522A_togglePower(i)
Fluke5522A_Output == \E i \in 1 .. Len(components) : Fluke5522A_toggleOutput(i)
\* 10 V typed on the keypad of a calibrator, then ENTER
Fluke5500A_Enter == \E i \in 1 .. Len(components) : Fluke5500A_handleEnter(i, 200, "V")
Fluke5522A_Enter == \E i \in 1 .. Len(components) : Fluke5522A_handleEnter(i, 200, "V")
Fluke5522A_SetMode ==
    \E i \in 1 .. Len(components), newMode \in {"DC Voltage", "Capacitance"} :
        Fluke5522A_handleSetMode(i, newMode)
Fluke5522A_Reset == \E i \in 1 .. Len(components) : Fluke5522A_handleReset(i)
Fluke5522A_Standby == \E i \in 1 .. Len(components) : Fluke5522A_standby(i)
SMA100A_Power == \E i \in 1 .. Len(components) : SMA100A_togglePower(i)
SMA100A_RF == \E i \in 1 .. Len(components) : SMA100A_toggleRF(i)
SMA100A_Mod == \E i \in 1 .. Len(components) : SMA100A_toggleMod(i)
SMA100A_Preset == \E i \in 1 .. Len(components) : SMA100A_handlePreset(i)
LightSource_Power == \E i \in 1 .. Len(components) : LightSource_togglePower(i)
LightSource_Output == \E i \in 1 .. Len(components) : LightSource_toggleOutput(i)
LightSource_Wavelength ==
    \E i \in 1 .. Len(components), wavelength \in {1550} :
        LightSource_handleWavelengthChange(i, wavelength)

\* the front panels of the sources, each device fresh from the sidebar
NextPanel ==
    \/ Plain(AddSource)
    \/ Plain(TogglePower)
    \/ Plain(ToggleOutput)
    \/ Plain(Fluke5500A_Enter)
    \/ Plain(SetMode)
    \/ Plain(Reset)
    \/ Plain(Standby)
    \/ Plain(Fluke5522A_Power)
    \/ Plain(Fluke5522A_Output)
    \/ Plain(Fluke5522A_Enter)
    \/ Plain(Fluke5522A_SetMode)
    \/ Plain(Fluke5522A_Reset)
    \/ Plain(Fluke5522A_Standby)
    \/ Plain(SMA100A_Power)
    \/ Plain(SMA100A_RF)
    \/ Plain(SMA100A_Mod)
    \/ Plain(SMA100A_Preset)
    \/ Plain(LightSource_Power)
    \/ Plain(LightSource_Output)
    \/ Plain(LightSource_Wavelength)

SpecPanel == Init /\ [][NextPanel]_vars

\* the bench with the analog multimeter, its effects run when they are due
NextEffects ==
    \/ Drawn(LoadNeedleBench)
    \/ Drawn(AddComponent)
    \/ Drawn(ToggleOutput)
    \/ Drawn(Adjust)
    \/ Drawn(PullWire)
    \/ Drawn(ToggleLoadingError)
    \/ Drawn(DeleteDevice)
    \/ NeedleEffectRuns

SpecEffects == Init /\ [][NextEffects]_vars

\* an effect that is due runs
SpecEffectsFair == SpecEffects /\ WF_vars(NeedleEffectRuns)

\* notifications: wires are requested, the canvas is used and cleared, and
\* the timers of the AlertItems run
NextAlerts ==
    \/ Shown(AddComponent)
    \/ Shown(AddConnection)
    \/ Shown(ToggleLoadingError)
    \/ Shown(ClearAll)
    \/ TimePasses
    \/ AutoDismiss
    \/ ClickAlert
    \/ ExitTimerFires

SpecAlerts == Init /\ [][NextAlerts]_vars

\* the clock does not stop, and a timer that is due again and again fires
SpecAlertsFair ==
    /\ Init
    /\ [][NextAlerts]_vars
    /\ WF_vars(TimePasses)
    /\ SF_vars(AutoDismiss)
    /\ SF_vars(ExitTimerFires)

\* a bench is built and operated, and saved and loaded again at any point
NextProject ==
    \/ Plain(AddComponent)
    \/ Plain(TogglePower)
    \/ Plain(KeypadEnter)
    \/ Plain(AddConnection)
    \/ Plain(DismissAlert)
    \/ Plain(ToggleWire)
    \/ Plain(SaveThenLoad)

SpecProject == Init /\ [][NextProject]_vars

SpecScheduler == Init /\ [][NextScheduler]_vars

SpecReading == Init /\ [][NextReading]_vars

SpecFlags == Init /\ [][NextFlags]_vars

SpecEdit == Init /\ [][NextEdit]_vars

SpecCompliance == Init /\ [][NextCompliance]_vars

SpecBench == Init /\ [][NextBench]_vars

SpecNoLoad == Init /\ [][NextNoLoad]_vars

SpecSession == Init /\ [][NextSession]_vars

SpecNoReset == Init /\ [][NextNoReset]_vars

----------------------------------------------------------------------------
(* Component ids *)

Last(seq) == seq[Len(seq)]

MaxOf(S) == CHOOSE m \in S : \A x \in S : x <= m

\* C1: from the empty store, with no clearAll and no loadProject, every id
\* that addComponent assigns is greater than every id assigned before it, so
\* ids increase strictly in assignment order and none is assigned twice, also
\* after the component that held it was removed.
C1_IdsStrictlyIncreasing ==
    [][lastOp'.type = "ADD_COMPONENT" =>
          \A h \in heldIds : Last(components').id > h]_vars

\* an addComponent made after a component was removed
C1_Witness ==
    /\ lastOp.type = "ADD_COMPONENT"
    /\ heldIds \ IdSet(components) # {}

\* C2: over a store's lifetime, clearAll and loadProject included,
\* addComponent never assigns an id that a component held earlier.
C2_NeverReusedInSession ==
    [][lastOp'.type = "ADD_COMPONENT" => Last(components').id \notin heldIds]_vars

\* the state right after loadProject of a non-empty list of non-negative ids
AfterLoadOfIds ==
    /\ lastOp.type = "LOAD_PROJECT"
    /\ components # <<>>
    /\ \A i \in 1 .. Len(components) : components[i].id >= 0

\* C3: right after loadProject of a non-empty component list with non-negative
\* ids the id counter is the largest loaded id plus one, whatever it was
\* before, and addComponent assigns the counter's value: the next id assigned
\* is max(loaded ids) + 1.
C3_NextIdAfterLoad ==
    /\ [](AfterLoadOfIds => componentIdCounter = MaxOf(IdSet(components)) + 1)
    /\ [][lastOp'.type = "ADD_COMPONENT" =>
             Last(components').id = componentIdCounter]_vars

\* the meter of SingleDoc, which only a load brings in switched off, followed
\* by a component added after the load
C3_Witness ==
    /\ lastOp.type = "ADD_COMPONENT"
    /\ Len(components) = 2
    /\ components[1] = SingleDoc.components[1]
    /\ components[2].id = 1

\* C4: right after loadProject of an empty component list the id counter is 0.
C4_EmptyLoadResetsCounter ==
    (lastOp.type = "LOAD_PROJECT" /\ components = <<>>) => componentIdCounter = 0

----------------------------------------------------------------------------
(* Removal *)

\* the source a meter's circuit resolution names, NoId when it names none
ResolvedSource(meterId) ==
    LET r == getConnectedValue(meterId)
    IN IF r = Null THEN NoId ELSE r.sourceId

\* C5: removeComponent(id) deletes the components with that id and the
\* connections whose from or to is id, keeps every other component and
\* connection as it was and in the same order, and afterwards no meter's
\* circuit resolution names id as its source.
C5_RemoveCascades ==
    [][\A id \in IdInputs :
          REMOVE_COMPONENT(id) =>
              /\ components' = SelectSeq(components, LAMBDA c : c.id # id)
              /\ connections' = SelectSeq(connections, LAMBDA k : k.from # id /\ k.to # id)
              /\ \A m \in IdInputs : ResolvedSource(m)' # id]_vars

\* a removal that took wires with it and left a circuit that still resolves
C5_Witness ==
    /\ lastOp = Op("REMOVE_COMPONENT", "cascade")
    /\ \E m \in IdInputs : ResolvedSource(m) # NoId

----------------------------------------------------------------------------
(* Stored connections *)

HasRole(id, role) ==
    \E i \in 1 .. Len(components) :
        components[i].id = id /\ DeviceRole(components[i].type) = role

\* C6: without loadProject, every stored connection leads from a component
\* that exists and is a calibrator to a component that exists and is a uuc.
C6_WiresLeadFromCalibratorToUUC ==
    \A k \in 1 .. Len(connections) :
        /\ HasRole(connections[k].from, "calibrator")
        /\ HasRole(connections[k].to, "uuc")

\* a wire placed on a bench that was cleared and set up again
C6_Witness ==
    /\ lastOp = Op("addConnection", "added")
    /\ alertIdCounter = 1
    /\ componentIdCounter = MaxId

Triple(conn) == <<conn.from, conn.to, conn.polarity>>

\* C7: without loadProject, no two stored connections have the same
\* (from, to, polarity).
C7_NoDuplicateTriple ==
    \A i, j \in 1 .. Len(connections) :
        i # j => Triple(connections[i]) # Triple(connections[j])

\* two wires between the same pair, of different polarity, one of them toggled
C7_Witness ==
    /\ Len(connections) >= 2
    /\ connections[1].from = connections[2].from
    /\ connections[1].to = connections[2].to
    /\ connections[1].wireProperties.type = "bad"

----------------------------------------------------------------------------
(* Validator *)

Stored(from, to, polarity) ==
    \E k \in 1 .. Len(connections) : Triple(connections[k]) = <<from, to, polarity>>

\* C8: validate accepts exactly when both ids are ids of components, the from
\* component is a calibrator, the to component is a uuc, and no stored
\* connection has the same (from, to, polarity).
C8_AcceptsExactlyLegalWires ==
    \A f \in IdInputs, t \in IdInputs, p \in Polarities :
        checkConnectionCompatibility(f, t, p).valid <=>
            /\ HasRole(f, "calibrator")
            /\ HasRole(t, "uuc")
            /\ ~Stored(f, t, p)

\* a calibrator wired hi to a meter: the same wire again is refused, the lo
\* wire between the pair is accepted, a wire from the meter is refused
C8_Witness ==
    \E f \in IdInputs, t \in IdInputs :
        /\ Stored(f, t, "hi")
        /\ HasRole(f, "calibrator")
        /\ HasRole(t, "uuc")
        /\ ~checkConnectionCompatibility(f, t, "hi").valid
        /\ checkConnectionCompatibility(f, t, "lo").valid
        /\ ~checkConnectionCompatibility(t, f, "hi").valid

\* the first rule, in the order of the specification, that a wire violates
FirstViolation(f, t, p) ==
    IF f \notin IdSet(components) \/ t \notin IdSet(components) THEN "DEVICE_NOT_FOUND"
    ELSE IF ~HasRole(f, "calibrator") THEN "UNSUPPORTED_SOURCE_ROLE"
    ELSE IF ~HasRole(t, "uuc") THEN "UNSUPPORTED_SINK_ROLE"
    ELSE IF Stored(f, t, p) THEN "DUPLICATE_POLARITY"
    ELSE "OK"

\* C9: the reason validate reports is that of the first violated rule in the
\* order missing device, source not a calibrator, sink not a uuc, duplicate.
C9_ReportsFirstViolatedRule ==
    \A f \in IdInputs, t \in IdInputs, p \in Polarities :
        checkConnectionCompatibility(f, t, p).message = FirstViolation(f, t, p)

\* a stored wire from a meter to a calibrator: asked for again it breaks the
\* source rule, the sink rule and the duplicate rule, and the source rule is reported
C9_Witness ==
    \E f \in IdInputs, t \in IdInputs :
        /\ Stored(f, t, "hi")
        /\ HasRole(f, "uuc")
        /\ HasRole(t, "calibrator")
        /\ checkConnectionCompatibility(f, t, "hi").message = "UNSUPPORTED_SOURCE_ROLE"

\* C10: an addConnection whose validation fails leaves components and
\* connections as they were and adds exactly one alert, of type error; one
\* whose validation succeeds appends exactly the connection (from, to,
\* polarity) with a standard wire and leaves the connections before it as they were.
C10_AddConnectionOutcome ==
    [][/\ lastOp'.outcome = "rejected" =>
             ((\E f \in IdInputs, t \in IdInputs, p \in Polarities :
                   /\ ~checkConnectionCompatibility(f, t, p).valid
                   /\ addConnection(f, t, p))
              => /\ components' = components
                 /\ connections' = connections
                 /\ Len(alerts') = Len(alerts) + 1
                 /\ SubSeq(alerts', 1, Len(alerts)) = alerts
                 /\ Last(alerts').type = "error")
       /\ lastOp'.outcome = "added" =>
             \A f \in IdInputs, t \in IdInputs, p \in Polarities :
                 (/\ checkConnectionCompatibility(f, t, p).valid
                  /\ addConnection(f, t, p))
                 => /\ Len(connections') = Len(connections) + 1
                    /\ SubSeq(connections', 1, Len(connections)) = connections
                    /\ Last(connections') =
                           [from |-> f, to |-> t, polarity |-> p,
                            wireProperties |-> [type |-> "standard",
                                                resistance |-> StandardResistance]]]_vars

\* a wire refused on a bench that holds wires
C10_Witness ==
    /\ lastOp = Op("addConnection", "rejected")
    /\ connections # <<>>
    /\ alerts # <<>>
    /\ Last(alerts).type = "error"

----------------------------------------------------------------------------
(* Circuit resolution *)

\* the components that resolve a circuit for themselves
MeterIds == {components[i].id : i \in {j \in 1 .. Len(components) : components[j].type = "multimeter"}}

\* the connections hold a wire from S to D on each of the two terminals
PairFrom(D, S, hiTerminal, loTerminal) ==
    /\ \E i \in 1 .. Len(connections) :
           Triple(connections[i]) = <<S, D, hiTerminal>>
    /\ \E i \in 1 .. Len(connections) :
           Triple(connections[i]) = <<S, D, loTerminal>>

Powered(S) == ComponentById(S) # Null /\ ComponentById(S).state.power

\* a calibrator is actively outputting when it is powered and its output is on
Outputting(S) == Powered(S) /\ ComponentById(S).state.output

\* C11: whenever a hi wire and a lo wire lead from the same source S to
\* measuring device D and S is powered with its output on, the resolver of D
\* yields an active measurement, whatever other wires end at D.
C11_CompleteCircuitResolved ==
    \A D \in MeterIds, S \in IdSet(components) :
        (PairFrom(D, S, "hi", "lo") /\ Outputting(S))
        => /\ getConnectedValue(D) # Null
           /\ getConnectedValue(D).active

PrimaryYieldsPoweredSource(D) ==
    \E S \in IdSet(components) : PairFrom(D, S, "hi", "lo") /\ Powered(S)

\* C13: the primary pair is tried first and the auxiliary pair second: with
\* both pairs complete a resolved source is the primary pair's, flag clear;
\* when the primary pair yields no powered source and the auxiliary pair is
\* complete from a powered, outputting source, that source is returned with
\* the auxiliary flag set.
C13_PrimaryThenAuxiliary ==
    \A D \in MeterIds :
        LET result == getConnectedValue(D)
        IN /\ \A P \in IdSet(components), A \in IdSet(components) :
                 (PairFrom(D, P, "hi", "lo") /\ PairFrom(D, A, "aux_hi", "aux_lo")
                  /\ Outputting(P))
                 => /\ result # Null
                    /\ ~result.isAuxConnection
                    /\ PairFrom(D, result.sourceId, "hi", "lo")
           /\ \A A \in IdSet(components) :
                 (PairFrom(D, A, "aux_hi", "aux_lo") /\ Outputting(A)
                  /\ ~PrimaryYieldsPoweredSource(D))
                 => /\ result # Null
                    /\ result.sourceId = A
                    /\ result.isAuxConnection
                    /\ result.active

----------------------------------------------------------------------------
(* Wire kinds *)

StandardWire == [type |-> "standard", resistance |-> StandardResistance]

BadWire == [type |-> "bad", resistance |-> BadResistance]

\* C14: toggleConnectionWireType(index) changes only the wireProperties of
\* the connection at that index: its from, to and polarity, every other
\* connection, the number and order of connections, the components and the
\* flags are as they were.
C14_ToggleChangesOnlyWire ==
    [][lastOp'.type = "TOGGLE_CONNECTION_WIRE_TYPE" =>
          \A index \in IndexInputs :
              TOGGLE_CONNECTION_WIRE_TYPE(index) =>
                  /\ Len(connections') = Len(connections)
                  /\ \A i \in 1 .. Len(connections) :
                        /\ Triple(connections'[i]) = Triple(connections[i])
                        /\ i - 1 # index => connections'[i] = connections[i]
                  /\ components' = components
                  /\ componentIdCounter' = componentIdCounter
                  /\ uncertaintyMode' = uncertaintyMode
                  /\ errorSimulation' = errorSimulation]_vars

\* a lo wire made bad while a toolbar switch is on and another wire is present
C14_Witness ==
    /\ lastOp.type = "TOGGLE_CONNECTION_WIRE_TYPE"
    /\ errorSimulation["loadingError"]
    /\ Len(connections) >= 2
    /\ \E i \in 1 .. Len(connections) :
           connections[i].polarity = "lo" /\ connections[i].wireProperties = BadWire

\* C15: without loadProject every connection's wire is standard with 0.05 Ohm
\* or bad with 5.0 Ohm; a new connection is standard, and a toggle switches
\* a wire from one of the two to the other.
C15_WireIsStandardOrBad ==
    /\ [](\A i \in 1 .. Len(connections) :
              connections[i].wireProperties \in {StandardWire, BadWire})
    /\ [][/\ lastOp' = Op("addConnection", "added") =>
                 Last(connections').wireProperties = StandardWire
          /\ lastOp'.type = "TOGGLE_CONNECTION_WIRE_TYPE" =>
                 \A index \in IndexInputs :
                     (TOGGLE_CONNECTION_WIRE_TYPE(index) /\ index < Len(connections))
                     => connections'[index + 1].wireProperties =
                            IF connections[index + 1].wireProperties = StandardWire
                            THEN BadWire ELSE StandardWire]_vars

\* a wire drawn by hand and then made bad
C15_Witness ==
    /\ lastOp.type = "TOGGLE_CONNECTION_WIRE_TYPE"
    /\ \E i \in 1 .. Len(connections) : connections[i].wireProperties = BadWire

----------------------------------------------------------------------------
(* Dispatches without a target *)

StoreUnchanged ==
    /\ components' = components
    /\ connections' = connections
    /\ componentIdCounter' = componentIdCounter
    /\ uncertaintyMode' = uncertaintyMode
    /\ errorSimulation' = errorSimulation

\* C16: removeComponent, updateComponentPosition and updateDeviceState with
\* an id that no component has, and removeConnection and
\* toggleConnectionWireType with an index outside the connections, leave
\* components, connections, the id counter and the flags as they were.
C16_NoTargetNoChange ==
    [][/\ \A id \in IdInputs \ IdSet(components) :
             (\/ REMOVE_COMPONENT(id)
              \/ \E c \in Coordinates : UPDATE_COMPONENT_POSITION(id, c, c)
              \/ \E power \in BOOLEAN : UPDATE_DEVICE_STATE(id, [power |-> power]))
             => StoreUnchanged
       /\ \A index \in IndexInputs \ (0 .. Len(connections) - 1) :
             (REMOVE_CONNECTION(index) \/ TOGGLE_CONNECTION_WIRE_TYPE(index))
             => StoreUnchanged]_vars

----------------------------------------------------------------------------
(* Simulation flags and compliance statuses *)

\* C17: uncertaintyMode and the three errorSimulation flags are changed by
\* the two toggle actions only; every other action leaves them as they were.
C17_FlagsChangedByTogglesOnly ==
    [][lastOp'.type \notin {"TOGGLE_UNCERTAINTY_MODE", "TOGGLE_ERROR_SIMULATION"} =>
          /\ uncertaintyMode' = uncertaintyMode
          /\ errorSimulation' = errorSimulation]_vars

\* C18: addComponent gives the new component one of the three compliance
\* statuses exactly when uncertainty mode is on and the type's role is uuc,
\* and null in every other case.
C18_StatusOnCreation ==
    [][lastOp'.type = "ADD_COMPONENT" =>
          LET new == Last(components')
          IN IF uncertaintyMode /\ DeviceRole(new.type) = "uuc"
             THEN new.state.complianceStatus \in COMPLIANCE_STATUSES
             ELSE new.state.complianceStatus = NoStatus]_vars

\* with the mode on, a calibrator placed after a multimeter: the multimeter
\* got a status at its creation, the calibrator none
C18_Witness ==
    /\ lastOp.type = "ADD_COMPONENT"
    /\ uncertaintyMode
    /\ Len(components) = 2
    /\ components[1].type = "multimeter"
    /\ components[1].state.complianceStatus = "out_of_tolerance"
    /\ components[2].type = "fluke5500a"
    /\ components[2].state.complianceStatus = NoStatus

\* the component but for its compliance status
SansStatus(c) == [c EXCEPT !.state = WithComplianceStatus(c.state, NoStatus)]

\* C19: switching uncertainty mode on gives every uuc component one of the
\* three statuses and leaves every other component, every other field of
\* every component, the connections and the id counter as they were.
C19_ModeOnTagsEveryUUC ==
    [][lastOp' = Op("TOGGLE_UNCERTAINTY_MODE", "on") =>
          /\ Len(components') = Len(components)
          /\ \A i \in 1 .. Len(components) :
                IF DeviceRole(components[i].type) = "uuc"
                THEN /\ components'[i].state.complianceStatus \in COMPLIANCE_STATUSES
                     /\ SansStatus(components'[i]) = SansStatus(components[i])
                ELSE components'[i] = components[i]
          /\ connections' = connections
          /\ componentIdCounter' = componentIdCounter]_vars

\* the mode switched on over a wired bench of a calibrator and a multimeter
C19_Witness ==
    /\ lastOp = Op("TOGGLE_UNCERTAINTY_MODE", "on")
    /\ connections # <<>>
    /\ \E i \in 1 .. Len(components), j \in 1 .. Len(components) :
           /\ components[i].type = "multimeter"
           /\ components[i].state.complianceStatus \in COMPLIANCE_STATUSES
           /\ components[j].type = "fluke5500a"
           /\ components[j].state.complianceStatus = NoStatus

\* C20: switching uncertainty mode off changes the uncertaintyMode flag
\* alone: every component, its compliance status included, is as it was.
C20_ModeOffKeepsStatuses ==
    [][lastOp' = Op("TOGGLE_UNCERTAINTY_MODE", "off") =>
          /\ uncertaintyMode /\ ~uncertaintyMode'
          /\ components' = components
          /\ connections' = connections
          /\ componentIdCounter' = componentIdCounter
          /\ alerts' = alerts
          /\ alertIdCounter' = alertIdCounter
          /\ errorSimulation' = errorSimulation]_vars

\* the mode switched off over a multimeter that keeps its status
C20_Witness ==
    /\ lastOp = Op("TOGGLE_UNCERTAINTY_MODE", "off")
    /\ \E i \in 1 .. Len(components) :
           components[i].state.complianceStatus \in COMPLIANCE_STATUSES

----------------------------------------------------------------------------
(* Loading error *)

\* the two wires of the terminal pair that D's reading was resolved on
ResolvedHiWire(D) ==
    ConnectionTo(D, IF getConnectedValue(D).isAuxConnection THEN "aux_hi" ELSE "hi")

ResolvedLoWire(D) ==
    ConnectionTo(D, IF getConnectedValue(D).isAuxConnection THEN "aux_lo" ELSE "lo")

\* the sum of their resistances
ResolvedWireResistance(D) ==
    ResolvedHiWire(D).wireProperties.resistance + ResolvedLoWire(D).wireProperties.resistance

\* the state of the source that D's reading was resolved from
ResolvedState(D) == ComponentById(getConnectedValue(D).sourceId).state

\* C21: with loading error on, a reading resolved from a calibrator in
\* Resistance mode programmed to R is exactly R + r1 + r2, r1 and r2 being the
\* resistances of the two wires of the resolved terminal pair.
C21_ResistanceAddsWires ==
    \A D \in MeterIds :
        (/\ getConnectedValue(D) # Null
         /\ errorSimulation["loadingError"]
         /\ ResolvedState(D).mode = "Resistance")
        => getConnectedValue(D).value =
               Exactly(ResolvedState(D).value
                       + ResolvedHiWire(D).wireProperties.resistance
                       + ResolvedLoWire(D).wireProperties.resistance)

\* 1000 Ohm through two bad wires reads 1010 Ohm
C21_Witness ==
    \E D \in MeterIds :
        /\ getConnectedValue(D) # Null
        /\ errorSimulation["loadingError"]
        /\ ResolvedState(D).mode = "Resistance"
        /\ ResolvedState(D).value = 20000
        /\ ResolvedHiWire(D).wireProperties = BadWire
        /\ ResolvedLoWire(D).wireProperties = BadWire
        /\ getConnectedValue(D).value = Exactly(20200)

\* what a reading v * num / den falls short of v, as the fraction
\* <<numerator, denominator>> of a step of 0.05
Loss(reading) == <<reading.value * (reading.den - reading.num), reading.den>>

\* the reading of a source programmed to 10 V lies within 0.000001 V of
\* 9.9999999 V: its loss lies within 0.000001 V of 0.0000001 V, that is
\* 0 <= loss and 500000 * numerator <= 11 * denominator
NearTenVolts(reading) ==
    /\ reading.value = 200
    /\ Loss(reading)[1] >= 0
    /\ (Loss(reading)[1] * 500000) \div 11 + 1 <= Loss(reading)[2]

\* C22: with loading error on, a reading resolved from a calibrator in a
\* voltage mode programmed to V through wires of total resistance Rw is
\* V * (10 MOhm / (10 MOhm + Rw)); 10 V through two standard wires reads
\* within 0.000001 V of 9.9999999 V.
C22_VoltageDivider ==
    \A D \in MeterIds :
        (/\ getConnectedValue(D) # Null
         /\ errorSimulation["loadingError"]
         /\ ResolvedState(D).mode \in VoltageModes)
        => /\ getConnectedValue(D).value =
                  Scaled(ResolvedState(D).value, rMeter, rMeter + ResolvedWireResistance(D))
           /\ (ResolvedState(D).value = 200
               /\ ResolvedWireResistance(D) = 2 * StandardResistance)
              => NearTenVolts(getConnectedValue(D).value)

\* 10 V through two bad wires reads 10 * (10 MOhm / (10 MOhm + 10 Ohm))
C22_Witness ==
    \E D \in MeterIds :
        /\ getConnectedValue(D) # Null
        /\ errorSimulation["loadingError"]
        /\ ResolvedState(D).mode = "DC Voltage"
        /\ ResolvedState(D).value = 200
        /\ ResolvedHiWire(D).wireProperties = BadWire
        /\ ResolvedLoWire(D).wireProperties = BadWire
        /\ getConnectedValue(D).value = Scaled(200, 200000000, 200000200)

\* the modes the loading error leaves alone
UnloadedModes == FLUKE_MODES \ (VoltageModes \cup CurrentModes \cup {"Resistance"})

\* C29: a reading is the source's programmed value unchanged while
\* loadingError is off, and while it is on for a source in none of the
\* voltage, resistance and current modes; a toggle of a wire's kind while
\* loadingError is off changes no reading.
C29_UnloadedReadingIsProgrammedValue ==
    /\ [](\A D \in MeterIds :
              (/\ getConnectedValue(D) # Null
               /\ \/ ~errorSimulation["loadingError"]
                  \/ ResolvedState(D).mode \in UnloadedModes)
              => getConnectedValue(D).value = Exactly(ResolvedState(D).value))
    /\ [][(lastOp'.type = "TOGGLE_CONNECTION_WIRE_TYPE"
           /\ ~errorSimulation["loadingError"])
          => \A D \in MeterIds : getConnectedValue(D)' = getConnectedValue(D)]_vars

\* with loadingError off a wire of a resolved pair was made bad, and the
\* meter reads the 1000 that is programmed
C29_Witness ==
    /\ lastOp.type = "TOGGLE_CONNECTION_WIRE_TYPE"
    /\ ~errorSimulation["loadingError"]
    /\ \E D \in MeterIds :
           /\ getConnectedValue(D) # Null
           /\ ResolvedHiWire(D).wireProperties = BadWire
           /\ ResolvedState(D).value = 20000
           /\ getConnectedValue(D).value = Exactly(20000)

----------------------------------------------------------------------------
(* Uncertainty scheduler *)

\* the mounted ids whose component is of this type
MountedOf(type) == {id \in DOMAIN instances : instances[id].type = type}

\* the multiplier the catalog tolerance is widened by
ComplianceFactor(complianceStatus) ==
    IF complianceStatus = "out_of_tolerance" THEN 10
    ELSE IF complianceStatus = "non_compliance" THEN 3
    ELSE 1

\* the catalog tolerance of the mode the Multimeter measures in: the mapped
\* mode of the source while one is resolved, else the dial's mode
EffectiveTolerance(id) ==
    MultimeterTolerance(IF getConnectedValue(id) # Null
                        THEN getConnectedValue(id).mappedMode
                        ELSE ComponentById(id).state.mode)

\* C23: every value that a tick of the Multimeter publishes is
\* base + (draw / RandomScale) * |base| * eff / 100 with |draw| <= RandomScale,
\* so that the offset stays within |base| * eff / 100; base is the
\* transformed value at the tick and eff the catalog tolerance of the
\* effective mode times 10 for out_of_tolerance, 3 for non_compliance, else 1
C23_TickSamplesWithinTolerance ==
    [][lastOp'.type = "updateFluctuation" =>
          \A id \in MountedOf("multimeter") :
             instances'[id].fluctuatingValue # instances[id].fluctuatingValue =>
                LET sample == instances'[id].fluctuatingValue
                IN /\ sample.base = baseValue(id, getConnectedValue(id))
                   /\ sample.tolerance =
                         EffectiveTolerance(id)
                            * ComplianceFactor(ComponentById(id).state.complianceStatus)
                   /\ sample.draw >= 0 - RandomScale
                   /\ sample.draw <= RandomScale]_vars

\* a tick has published the lowest sample of an out-of-tolerance Multimeter
\* that measures 10 V: ten times the 0.015 percent of the catalog
C23_Witness ==
    /\ lastOp.type = "updateFluctuation"
    /\ \E id \in MountedOf("multimeter") :
          /\ ComponentById(id).state.complianceStatus = "out_of_tolerance"
          /\ instances[id].fluctuatingValue = Sample(Exactly(200), 0 - RandomScale, 300)

\* the enabling condition of the scheduler of the component with this id;
\* the U3606A is powered while its dial is off the OFF position, where the
\* model leaves it
Enabling(id) ==
    /\ uncertaintyMode \/ errorSimulation["resolutionUncertainty"]
    /\ connectedValue(id) # Null
    /\ ComponentById(id).type = "multimeter" => ComponentById(id).state.power

\* the instances that a step keeps and whose pending timer it cancels to
\* start a new schedule
Rescheduled ==
    {id \in DOMAIN instances \cap DOMAIN instances' :
        /\ instances'[id].type = instances[id].type
        /\ instances'[id].cadence # instances[id].cadence}

\* C24: a step cancels the pending timer of a device and starts a new
\* schedule only when the truth value of the device's enabling condition
\* changes
C24_RestartOnlyWhenEnablingChanges ==
    [][\A id \in Rescheduled : Enabling(id)' # Enabling(id)]_vars

C26_OneTimerNoneForRemoved ==
    \A id \in TimerOwners :
       /\ timers[id] <= 1
       /\ id \notin IdSet(components) => timers[id] = 0
       /\ (id \in DOMAIN instances /\ ~Enabling(id)) => timers[id] = 0

\* a device was deleted while its schedule was running with uncertainty
\* mode on: its timer is gone
C26_Witness ==
    /\ lastOp.type = "REMOVE_COMPONENT"
    /\ uncertaintyMode
    /\ \E id \in TimerOwners :
          /\ id \notin IdSet(components)
          /\ id < componentIdCounter
          /\ id >= 0
          /\ timers[id] = 0
    /\ \E i \in 1 .. Len(components) : components[i].type = "fluke5500a"

\* the scheduler of the device is running and its display shows a sample
Fluctuating(id) ==
    /\ timers[id] = 1
    /\ instances[id].fluctuatingValue # Null
    /\ displayValue(id) = instances[id].fluctuatingValue

\* C30: for every mounted measuring device the scheduler runs and a
\* fluctuating value is displayed exactly while (uncertaintyMode or
\* resolutionUncertainty) and an active resolved circuit and power
C30_FluctuatesExactlyWhileEnabled ==
    \A id \in DOMAIN instances : Fluctuating(id) <=> Enabling(id)

----------------------------------------------------------------------------
(* Readers and the store *)

\* C27: reading never writes: a step in which a measuring device evaluates
\* its reading, or a timer of its scheduler fires, leaves components,
\* connections, the id counter and the flags as they were
C27_ReadingNeverWrites ==
    [][(NeedleEffect \/ lastOp'.type = "updateFluctuation") => StoreUnchanged]_vars

----------------------------------------------------------------------------
(* Loaded records *)

\* C28: no load leaves a malformed component in the store: every stored
\* component has a state map that contains the fields of the catalog's
\* initial state of its type
C28_LoadedComponentsAreWellFormed ==
    \A i \in 1 .. Len(components) :
       /\ "state" \in DOMAIN components[i]
       /\ DOMAIN getInitialState(components[i].type) \subseteq DOMAIN components[i].state

----------------------------------------------------------------------------
(* Samples of the shared hook *)

\* |x|
Magnitude(x) == IF x < 0 THEN 0 - x ELSE x

\* |base| * eff / 100 of a sample, in steps of 0.00000025 over the
\* denominator of its base
Amplitude(sample) ==
    Magnitude(sample.base.value) * sample.base.num * sample.tolerance

\* twice RandomScale times the distance of the published value from its base,
\* in the same steps: the offset and the noise
TwiceScaledOffset(sample) ==
    2 * sample.draw * Amplitude(sample)
       + sample.noise * 20 * sample.minNoise.value * sample.minNoise.num

\* C31: every value that the shared hook publishes lies within
\* |base| * eff / 100 of its base, eff being the tolerance times 10 for
\* out_of_tolerance, 3 for non_compliance and 1 otherwise; for base 0 the
\* published value is 0
C31_HookSamplesWithinTolerance ==
    \A id \in DOMAIN instances :
       (instances[id].type # "multimeter" /\ instances[id].fluctuatingValue # Null) =>
          LET sample == instances[id].fluctuatingValue
          IN /\ sample.tolerance =
                   U3606ATolerance("DCV")
                      * ComplianceFactor(ComponentById(id).state.complianceStatus)
             /\ Magnitude(TwiceScaledOffset(sample)) <= 2 * RandomScale * Amplitude(sample)

----------------------------------------------------------------------------
(* Terminal clicks *)

\* C36: whenever connectionStartPoint is not null, the component id it holds
\* is the id of a component in the store
C36_StartPointNamesStoredComponent ==
    connectionStartPoint # Null =>
       connectionStartPoint.componentId \in IdSet(components)

\* the click handled in this step asked for a connection
Requested == lastOp'.type = "addConnection"

\* C37: a click asks for a connection only when it is on an input terminal
\* while a start point is pending, and then from the pending terminal's
\* component to the clicked component, which is another one, with the
\* polarity that both terminals have; after every click on an input terminal
\* made while a start is pending, and after a second click on an output
\* terminal, the start point is null
C37_ClickHandshake ==
    [][\A type \in {"output", "input"}, id \in IdSet(components),
          polarity \in WiredPolarities :
          ConnectionPoint_handleClick(type, id, polarity) =>
             /\ Requested <=>
                   /\ type = "input"
                   /\ connectionStartPoint # Null
                   /\ connectionStartPoint.polarity = polarity
                   /\ connectionStartPoint.componentId # id
             /\ Requested =>
                   /\ connectionStartPoint.type = "output"
                   /\ ConnectionRequest(connectionStartPoint.componentId, id, polarity)
             /\ connectionStartPoint # Null => connectionStartPoint' = Null]_vars

\* a click on an input terminal has ended a started wire: the wire is stored
\* and the start point is null again
C37_Witness ==
    /\ lastOp = Op("addConnection", "added")
    /\ connectionStartPoint = Null
    /\ connections # <<>>

----------------------------------------------------------------------------
(* Compliance status under loads *)

\* C34: while uncertainty mode is on, every unit under calibration in the
\* store has a compliance status
C34_ModeOnEveryUUCHasStatus ==
    uncertaintyMode =>
       \A i \in 1 .. Len(components) :
          components[i].type \in getUUCTypes =>
             components[i].state.complianceStatus # NoStatus

----------------------------------------------------------------------------
(* Source panels *)

\* the field that enables the output of a source: rfOn on the signal
\* generator, output on the calibrators and on the light source
OutputEnabled(component) ==
    IF component.type = "sma100a" THEN component.state.rfOn ELSE component.state.output

\* C38: on every source placed from the sidebar and operated from its front
\* panel, the output is enabled only while the power is on
C38_OutputOnlyWhilePowered ==
    \A i \in 1 .. Len(components) :
        components[i].type \in SourceTypes =>
            (OutputEnabled(components[i]) => components[i].state.power)

\* the power of a signal generator has just gone, and its RF stage with it
C38_Witness ==
    /\ lastOp = Op("UPDATE_DEVICE_STATE", "")
    /\ \E i \in 1 .. Len(components) :
          /\ components[i].type = "sma100a"
          /\ ~components[i].state.power
          /\ ~components[i].state.rfOn
          /\ components[i].state.modOn
    /\ \E i \in 1 .. Len(components) :
          /\ components[i].type \in {"fluke5500a", "fluke5522a", "lightsource"}
          /\ components[i].state.power
          /\ components[i].state.output

----------------------------------------------------------------------------
(* Saved projects *)

\* C39: loading the file that was just saved leaves the components and the
\* connections as they were
C39_SaveThenLoadIsIdentity ==
    [][lastOp'.type = "LOAD_PROJECT" =>
          /\ components' = components
          /\ connections' = connections]_vars

----------------------------------------------------------------------------
(* Notifications *)

\* the alerts a step takes off the list, by serial
Dismissed ==
    {alertItems.items[id].serial : id \in DOMAIN alertItems.items}
        \ {alertItems'.items[id].serial : id \in DOMAIN alertItems'.items}

\* C35: a 300 ms timer that fires takes off the list no alert but the one it
\* was set for
C35_TimerRemovesOnlyItsAlert ==
    [][\A timer \in alertItems.exits \ alertItems'.exits :
          \A serial \in Dismissed : serial = timer.serial]_vars

\* the serials of the alerts on the list
ShownSerials == {alertItems.items[id].serial : id \in DOMAIN alertItems.items}

\* C32: every alert shown leaves the list in the end
C32_AlertsEventuallyDismissed ==
    \A serial \in 1 .. MaxShown : (serial \in ShownSerials) ~> (serial \notin ShownSerials)

----------------------------------------------------------------------------
(* Effects that dispatch *)

\* no effect of a measuring device is due
Quiescent == \A id \in DOMAIN instances : ~instances[id].pending

\* the step into this state was a dispatch from the user, or the start
UserActed == \A id \in DOMAIN instances : ~instances[id].dispatched

\* C33: the dispatches of the effects end: again and again the store is
\* quiescent or the user has acted
C33_EffectChainsEnd == []<>(Quiescent \/ UserActed)

====
